---------------------------- MODULE Spec2Model ----------------------------
(***************************************************************************)
(* State-machine model of the osteo-canin backend: the auth service and    *)
(* its routes (backend/src/services/authService.ts, routes/auth.ts), the   *)
(* users router (routes/users.ts) and the animals router                   *)
(* (routes/animals.ts).  Every action is one HTTP request, handled from    *)
(* the first middleware to the response.  The database tables are the      *)
(* variables users, auditLog, animals, appointments and treatmentNotes.    *)
(***************************************************************************)
EXTENDS Integers, Sequences, FiniteSets, Bags, TLC

(***************************************************************************)
(* Bounds of the model.                                                    *)
(***************************************************************************)
MaxClients == 2        \* registrations over a run
MaxLogins == 2         \* successful logins over a run
MaxAnimals == 1        \* animals created over a run
MaxAppointments == 1   \* appointments created over a run
MaxNotes == 1          \* treatment notes created over a run
MaxManual == 2         \* manual reminders created over a run
MaxPosted == 1         \* rows of reminders created by POST /reminders
MaxReminders == 6      \* rows of reminders created over a run
MaxTime == 1           \* minutes the clock advances over a run

(***************************************************************************)
(* Program constants.                                                      *)
(***************************************************************************)
MinPasswordLen == 6
\* Minutes in the offsets of the booking reminders: 24 hours before, 2 hours
\* before and 7 days after the start of the appointment.
DayMinutes == 1440
TwoHourMinutes == 120
WeekMinutes == 10080

\* UserRole of @prisma/client, as the code uses it.
ADMIN == "ADMIN"
PRACTITIONER == "PRACTITIONER"
CLIENT == "CLIENT"
StaffRoles == {ADMIN, PRACTITIONER}

\* Error strings of the service and the routes, verbatim.
ErrRequired == "First name, last name, email and password are required"
ErrPasswordShort == "Password must be at least 6 characters long"
ErrEmailFormat == "Please provide a valid email address"
ErrDuplicateEmail == "An account with this email already exists"
ErrLoginRequired == "Email and password are required"
ErrInvalidCredentials == "Invalid credentials"
ErrPendingValidation == "Your account is pending validation by an administrator. Please wait for approval before logging in."
ErrRefreshRequired == "Refresh token required"
ErrInvalidRefresh == "Invalid refresh token"
ErrClientNotFound == "Client not found"
ErrOnlyClientsValidated == "Only client accounts can be validated"
ErrAlreadyValidated == "Client is already validated"
ErrUserNotFound == "User not found"
ErrAccountAlreadyValidated == "Client account is already validated"
ErrOnlyClientsDeleted == "Only client accounts can be deleted"
ErrOnlyClientsUpdated == "Only client accounts can be updated"
ErrEmailTaken == "Email is already taken"
ErrClientIdsRequired == "Client IDs array is required"
ErrSearchRequired == "Search query is required"
ErrAppointmentNotFound == "Appointment not found"
ErrAnimalNotFound == "Animal not found"
ErrAnimalNotFoundUpdate == "Animal not found or you do not have permission to update it"
ErrAnimalNotFoundDelete == "Animal not found or you do not have permission to delete it"
ErrAnimalHasDependents == "Cannot delete animal with existing appointments or treatment notes. Please contact an administrator."
ErrValidation == "ZodError"
ErrUnauthorized == "Unauthorized"
ErrForbidden == "Forbidden"
ErrNoRoute == "Not Found"
NoError == ""

NoId == "-"

(***************************************************************************)
(* Strings the code transforms are sequences of characters, so that        *)
(* toLowerCase, trim and the e-mail pattern are computed, not assumed.     *)
(* An e-mail address is written without its fixed domain part "@x.io":     *)
(* the sequence is the local part.                                         *)
(***************************************************************************)
ToLowerChar(c) ==
  CASE c = "A" -> "a"
    [] c = "B" -> "b"
    [] OTHER -> c

ToLowerCase(s) == [i \in 1..Len(s) |-> ToLowerChar(s[i])]

IsSpace(c) == c = " "

RECURSIVE TrimLeft(_)
TrimLeft(s) ==
  IF s # <<>> /\ IsSpace(Head(s)) THEN TrimLeft(Tail(s)) ELSE s

RECURSIVE TrimRight(_)
TrimRight(s) ==
  IF s # <<>> /\ IsSpace(s[Len(s)]) THEN TrimRight(SubSeq(s, 1, Len(s) - 1)) ELSE s

Trim(s) == TrimRight(TrimLeft(s))

\* /^[^\s@]+@[^\s@]+\.[^\s@]+$/ on local-part ++ "@x.io": the local part is
\* not empty and holds neither white space nor "@".
EmailRegexTest(s) ==
  /\ Len(s) >= 1
  /\ \A i \in 1..Len(s) : ~IsSpace(s[i]) /\ s[i] # "@"

\* E-mail addresses and passwords the requests are drawn from: none, lower
\* and mixed case, a second address, one the pattern rejects, one with white
\* space around it, and the staff address.
RegisterEmails == {<<>>, <<"a">>, <<"A">>, <<"b">>, <<"a", "@">>}
LoginEmails == {<<>>, <<"a">>, <<"A">>, <<"b">>, <<" ", "a">>, <<"r">>}
UpdateEmails == {<<>>, <<"A">>}
RegisterPasswords == {"", "short", "secret1"}
LoginPasswords == {"", "secret1", "secret2"}

\* bcrypt: a hash is compared by re-hashing; only the preimage matters here.
BcryptHash(p) == <<"bcrypt", p>>
BcryptCompare(p, h) == h = BcryptHash(p)

(***************************************************************************)
(* JSON web tokens.  generateTokens signs {userId} twice, with two secrets *)
(* and two lifetimes; jwt.verify accepts a token signed with the secret it *)
(* is given and not expired.                                               *)
(***************************************************************************)
NoToken == [kind |-> "none", userId |-> NoId, expired |-> FALSE]
GarbageToken == [kind |-> "garbage", userId |-> NoId, expired |-> FALSE]

JwtVerifyRefresh(tok) == tok.kind = "refresh" /\ ~tok.expired
JwtVerifyAccess(tok) == tok.kind = "access" /\ ~tok.expired

VARIABLES
  users,           \* table users: id -> [email, password, role, validated]
  auditLog,        \* table audit_logs: a bag of [userId, action, target]
  issued,          \* user ids generateTokens has signed a token pair for
  nextClient,      \* number of users created by register so far
  logins,          \* number of successful logins so far
  animals,         \* table animals: id -> [ownerId, name]
  nextAnimal,      \* number of animals created so far
  appointments,    \* table appointments: id -> [animalId, clientId, status]
  nextAppointment, \* number of appointments created so far
  treatmentNotes,  \* table treatment_notes: id -> [animalId]
  nextNote,        \* number of treatment notes created so far
  manualReminders, \* the Map manualReminders: id -> ReminderResponse
  nextManual,      \* number of manual reminders created so far
  reminders,       \* table reminders: id -> [message, type, remindAt, sent,
                   \* appointmentId]
  nextReminder,    \* number of rows of reminders created so far
  now,             \* Date.now(), in minutes
  inflight,        \* the requests being handled: slot -> the request, the
                   \* await it stands at and what it has read
  resp             \* the response to the last request

vars == <<users, auditLog, issued, nextClient, logins, animals, nextAnimal,
          appointments, nextAppointment, treatmentNotes, nextNote,
          manualReminders, nextManual, reminders, nextReminder, now,
          inflight, resp>>

authVars == <<users, auditLog, issued, nextClient, logins>>
animalVars == <<animals, nextAnimal, appointments, nextAppointment,
                treatmentNotes, nextNote>>

\* The reminders and the process that serves them.
reminderVars == <<manualReminders, nextManual, reminders, nextReminder, now,
                  inflight>>

\* The requests one process handles at a time in this model, and a slot
\* without a request.
Slots == {1, 2}
Idle == [pc |-> "idle"]

ClientId(n) == "c" \o ToString(n)
AnimalId(n) == "a" \o ToString(n)
AppointmentId(n) == "p" \o ToString(n)
NoteId(n) == "n" \o ToString(n)

\* A response: the request it answers (op), the handler that wrote it,
\* status, error (or ""), the user the body names, and whether the body
\* carries the token pair of generateTokens for that user; data is the set
\* of rows a listing returns and list the array GET /reminders returns ({}
\* and <<>> for every other response).
RoutedResponse(op, handler, status, error, userId, tokens) ==
  [op |-> op, handler |-> handler, status |-> status, error |-> error,
   userId |-> userId, tokens |-> tokens, data |-> {}, list |-> <<>>]

Response(op, status, error, userId, tokens) ==
  RoutedResponse(op, op, status, error, userId, tokens)

Fail(op, status, error) == Response(op, status, error, NoId, FALSE)

RoutedFail(op, handler, status, error) ==
  RoutedResponse(op, handler, status, error, NoId, FALSE)

\* One row of audit_logs: who acted, the action tag and the set of client ids
\* the meta names ({} where the meta describes the acting user only).
AuditEntry(userId, action, target) ==
  [userId |-> userId, action |-> action, target |-> target]

AuditCreate(entry) == auditLog (+) SetToBag({entry})

\* prisma.user.findUnique({ where: { email } }): the ids with that stored
\* e-mail (at most one while the column is unique).
FindByEmail(email) == {u \in DOMAIN users : users[u].email = email}

(***************************************************************************)
(* Init: one seeded staff account; no client, no animal.  The migration    *)
(* that adds users.validated defaults it to false: the ADMIN account is    *)
(* one created before it (validated = false), the PRACTITIONER account one *)
(* created after it with the flag set.                                     *)
(***************************************************************************)
StaffId == "s1"
StaffEmail == <<"r">>

StaffUser(role, validated) ==
  [email |-> StaffEmail, password |-> BcryptHash("secret1"), role |-> role,
   validated |-> validated]

InitTables ==
  /\ animals = <<>>
  /\ nextAnimal = 0
  /\ appointments = <<>>
  /\ nextAppointment = 0
  /\ treatmentNotes = <<>>
  /\ nextNote = 0
  /\ manualReminders = <<>>
  /\ nextManual = 0
  /\ reminders = <<>>
  /\ nextReminder = 0
  /\ now = 0
  /\ inflight = [s \in Slots |-> Idle]

Init ==
  /\ \E role \in StaffRoles :
       users = [u \in {StaffId} |-> StaffUser(role, role = PRACTITIONER)]
  /\ auditLog = EmptyBag
  /\ issued = {}
  /\ nextClient = 0
  /\ logins = 0
  /\ InitTables
  /\ resp = Fail("", 0, NoError)

(***************************************************************************)
(* POST /auth/register                                                     *)
(***************************************************************************)
\* AuthService.register as it would be had the create kept the address as
\* typed.
RegisterServiceKeepsCase(email, password) ==
  LET lower == ToLowerCase(email)
      id == ClientId(nextClient + 1)
  IN IF FindByEmail(lower) # {}
     THEN /\ resp' = Fail("register", 400, ErrDuplicateEmail)
          /\ UNCHANGED authVars
     ELSE /\ nextClient < MaxClients
          /\ users' = [u \in DOMAIN users \cup {id} |->
                         IF u = id
                         THEN [email |-> email, password |-> BcryptHash(password),
                               role |-> CLIENT, validated |-> FALSE]
                         ELSE users[u]]
          /\ auditLog' = AuditCreate(AuditEntry(id, "USER_REGISTERED", {}))
          /\ nextClient' = nextClient + 1
          /\ resp' = Response("register", 201, NoError, id, FALSE)
          /\ UNCHANGED <<issued, logins>>

\* AuthService.register, after the route's checks and its email.trim().
RegisterService(email, password) ==
  LET lower == ToLowerCase(email)
      id == ClientId(nextClient + 1)
  IN IF FindByEmail(lower) # {}
     THEN /\ resp' = Fail("register", 400, ErrDuplicateEmail)
          /\ UNCHANGED authVars
     ELSE /\ nextClient < MaxClients
          /\ users' = [u \in DOMAIN users \cup {id} |->
                         IF u = id
                         THEN [email |-> lower, password |-> BcryptHash(password),
                               role |-> CLIENT, validated |-> FALSE]
                         ELSE users[u]]
          /\ auditLog' = AuditCreate(AuditEntry(id, "USER_REGISTERED", {}))
          /\ nextClient' = nextClient + 1
          /\ resp' = Response("register", 201, NoError, id, FALSE)
          /\ UNCHANGED <<issued, logins>>

PostRegister(namesGiven, email, password) ==
  /\ IF ~namesGiven \/ email = <<>> \/ password = ""
     THEN resp' = Fail("register", 400, ErrRequired) /\ UNCHANGED authVars
     ELSE IF Len(password) < MinPasswordLen
     THEN resp' = Fail("register", 400, ErrPasswordShort) /\ UNCHANGED authVars
     ELSE IF ~EmailRegexTest(email)
     THEN resp' = Fail("register", 400, ErrEmailFormat) /\ UNCHANGED authVars
     ELSE RegisterService(Trim(email), password)
  /\ UNCHANGED <<animalVars, reminderVars>>

(***************************************************************************)
(* POST /auth/login                                                        *)
(***************************************************************************)
\* AuthService.login as it would be with the validation gate placed before
\* the password check.
LoginErrorGateFirst(email, password) ==
  LET found == FindByEmail(ToLowerCase(email))
  IN IF found = {} THEN ErrInvalidCredentials
     ELSE LET user == users[CHOOSE u \in found : TRUE]
          IN IF user.role = CLIENT /\ ~user.validated THEN ErrPendingValidation
             ELSE IF ~BcryptCompare(password, user.password) THEN ErrInvalidCredentials
             ELSE NoError

\* The outcome of AuthService.login as the route reports it: the user the
\* lookup finds and the error thrown ("" when it returns tokens).
LoginError(email, password) ==
  LET found == FindByEmail(ToLowerCase(email))
  IN IF found = {} THEN ErrInvalidCredentials
     ELSE LET user == users[CHOOSE u \in found : TRUE]
          IN IF ~BcryptCompare(password, user.password) THEN ErrInvalidCredentials
             ELSE IF user.role = CLIENT /\ ~user.validated THEN ErrPendingValidation
             ELSE NoError

\* The response of the route: its own check of the body, then the service
\* with email.trim().
LoginResponse(email, password) ==
  IF email = <<>> \/ password = "" THEN Fail("login", 400, ErrLoginRequired)
  ELSE IF LoginError(Trim(email), password) # NoError
  THEN Fail("login", 401, LoginError(Trim(email), password))
  ELSE Response("login", 200, NoError,
                CHOOSE u \in FindByEmail(ToLowerCase(Trim(email))) : TRUE, TRUE)

PostLogin(email, password) ==
  /\ resp' = LoginResponse(email, password)
  /\ IF resp'.status # 200
     THEN UNCHANGED authVars
     ELSE /\ logins < MaxLogins
          /\ issued' = issued \cup {resp'.userId}
          /\ auditLog' = AuditCreate(AuditEntry(resp'.userId, "USER_LOGIN", {}))
          /\ logins' = logins + 1
          /\ UNCHANGED <<users, nextClient>>
  /\ UNCHANGED <<animalVars, reminderVars>>

(***************************************************************************)
(* POST /auth/refresh                                                      *)
(***************************************************************************)
\* AuthService.refreshToken as it would be with jwt.verify told to ignore
\* the expiry.
RefreshThrownIgnoresExpiry(tok) ==
  IF tok.kind # "refresh" THEN "jwt.verify"
  ELSE IF tok.userId \notin DOMAIN users THEN ErrInvalidRefresh
  ELSE IF users[tok.userId].role = CLIENT /\ ~users[tok.userId].validated
  THEN "Account validation has been revoked. Please contact an administrator."
  ELSE NoError

\* The body of the try block of AuthService.refreshToken: the error it throws
\* ("" when it returns tokens).  Whatever is thrown, the catch rethrows
\* 'Invalid refresh token'.
RefreshThrown(tok) ==
  IF ~JwtVerifyRefresh(tok) THEN "jwt.verify"
  ELSE IF tok.userId \notin DOMAIN users THEN ErrInvalidRefresh
  ELSE IF users[tok.userId].role = CLIENT /\ ~users[tok.userId].validated
  THEN "Account validation has been revoked. Please contact an administrator."
  ELSE NoError

RefreshService(tok) ==
  IF RefreshThrown(tok) # NoError
  THEN /\ resp' = Fail("refresh", 401, ErrInvalidRefresh)
       /\ UNCHANGED authVars
  ELSE /\ issued' = issued \cup {tok.userId}
       /\ resp' = Response("refresh", 200, NoError, tok.userId, TRUE)
       /\ UNCHANGED <<users, auditLog, nextClient, logins>>

PostRefresh(tok) ==
  /\ IF tok.kind = "none"
     THEN resp' = Fail("refresh", 400, ErrRefreshRequired) /\ UNCHANGED authVars
     ELSE RefreshService(tok)
  /\ UNCHANGED <<animalVars, reminderVars>>

(***************************************************************************)
(* middleware/auth: authenticateToken resolves the bearer token to a user, *)
(* requireRole checks the user's role against the route's allow-list.      *)
(***************************************************************************)
Authenticate(tok) ==
  IF JwtVerifyAccess(tok) /\ tok.userId \in DOMAIN users THEN tok.userId ELSE NoId

RoleAllowed(caller, roles) == users[caller].role \in roles

\* The response of the two middlewares when they end the request, "" when
\* they call next().
GateError(tok, roles) ==
  IF Authenticate(tok) = NoId THEN ErrUnauthorized
  ELSE IF ~RoleAllowed(Authenticate(tok), roles) THEN ErrForbidden
  ELSE NoError

GateStatus(tok, roles) == IF GateError(tok, roles) = ErrUnauthorized THEN 401 ELSE 403

IsAdmin(caller) ==
  users[caller].role = ADMIN \/ users[caller].role = PRACTITIONER

(***************************************************************************)
(* PUT /auth/validate-client/:clientId                                     *)
(***************************************************************************)
\* AuthService.validateClient as it would be without the already-validated
\* check.
ValidateClientErrorNoRecheck(clientId) ==
  IF clientId \notin DOMAIN users THEN ErrClientNotFound
  ELSE IF users[clientId].role # CLIENT THEN ErrOnlyClientsValidated
  ELSE NoError

\* The error AuthService.validateClient throws, "" when it goes on to write.
ValidateClientError(clientId) ==
  IF clientId \notin DOMAIN users THEN ErrClientNotFound
  ELSE IF users[clientId].role # CLIENT THEN ErrOnlyClientsValidated
  ELSE IF users[clientId].validated THEN ErrAlreadyValidated
  ELSE NoError

\* prisma.user.update({ where: { id }, data: { validated: true } })
SetValidated(id) == [users EXCEPT ![id].validated = TRUE]

ValidateClientService(clientId, adminUserId) ==
  IF ValidateClientError(clientId) # NoError
  THEN /\ resp' = Fail("validate-client", 400, ValidateClientError(clientId))
       /\ UNCHANGED authVars
  ELSE /\ users' = SetValidated(clientId)
       /\ auditLog' = AuditCreate(AuditEntry(adminUserId, "CLIENT_VALIDATED", {clientId}))
       /\ resp' = Response("validate-client", 200, NoError, clientId, FALSE)
       /\ UNCHANGED <<issued, nextClient, logins>>

PutAuthValidateClient(tok, clientId) ==
  /\ IF GateError(tok, StaffRoles) # NoError
     THEN /\ resp' = Fail("validate-client", GateStatus(tok, StaffRoles),
                          GateError(tok, StaffRoles))
          /\ UNCHANGED authVars
     ELSE ValidateClientService(clientId, Authenticate(tok))
  /\ UNCHANGED <<animalVars, reminderVars>>

\* GET /auth/pending-clients, with AuthService.getPendingClients.
getPendingClients == {u \in DOMAIN users : users[u].role = CLIENT /\ ~users[u].validated}

GetAuthPendingClients(tok) ==
  LET op == "GET /auth/pending-clients"
  IN /\ IF GateError(tok, StaffRoles) # NoError
        THEN resp' = Fail(op, GateStatus(tok, StaffRoles), GateError(tok, StaffRoles))
        ELSE resp' = [Response(op, 200, NoError, Authenticate(tok), FALSE)
                        EXCEPT !.data = getPendingClients]
     /\ UNCHANGED <<authVars, animalVars, reminderVars>>

(***************************************************************************)
(* The users router (routes/users.ts).  Express tries the routes in the    *)
(* order they were registered and runs the first whose method and pattern  *)
(* match; a ":id" segment matches any segment.  Every handler below ends   *)
(* the request, so no later route is tried.                                *)
(***************************************************************************)
Route(method, pattern, handler) ==
  [method |-> method, pattern |-> pattern, handler |-> handler]

usersRoutes ==
  << Route("GET", <<"me">>, "GET /me"),
     Route("GET", <<"clients">>, "GET /clients"),
     Route("GET", <<":id">>, "GET /:id"),
     Route("PUT", <<":id", "validate">>, "PUT /:id/validate"),
     Route("DELETE", <<":id">>, "DELETE /:id"),
     Route("PUT", <<":id">>, "PUT /:id"),
     Route("GET", <<"search">>, "GET /search"),
     Route("PUT", <<"bulk", "validate">>, "PUT /bulk/validate") >>

MatchPattern(pattern, path) ==
  /\ Len(pattern) = Len(path)
  /\ \A i \in 1..Len(pattern) : pattern[i] = ":id" \/ pattern[i] = path[i]

MatchingRoutes(routes, method, path) ==
  {i \in 1..Len(routes) :
     routes[i].method = method /\ MatchPattern(routes[i].pattern, path)}

\* The handler that serves the request: the first match, "" when none.
Dispatch(routes, method, path) ==
  LET m == MatchingRoutes(routes, method, path)
  IN IF m = {} THEN ""
     ELSE routes[CHOOSE i \in m : \A j \in m : i <= j].handler

\* The two middlewares of a role-gated route of this router ended the
\* request: their response, and nothing written.
UsersGateFail(req, h, tok, roles) ==
  /\ resp' = RoutedFail(req, h, GateStatus(tok, roles), GateError(tok, roles))
  /\ UNCHANGED authVars
  /\ UNCHANGED <<animalVars, reminderVars>>

\* A handler of this router answered an error before any write.
UsersFail(req, h, status, error) ==
  /\ resp' = RoutedFail(req, h, status, error)
  /\ UNCHANGED authVars
  /\ UNCHANGED <<animalVars, reminderVars>>

\* PUT /:id/validate as it would be without the check of the role.
UsersValidateErrorAnyRole(id) ==
  IF id \notin DOMAIN users THEN ErrUserNotFound
  ELSE IF users[id].validated THEN ErrAccountAlreadyValidated
  ELSE NoError

\* PUT /:id/validate as it would be without the already-validated check.
UsersValidateErrorNoRecheck(id) ==
  IF id \notin DOMAIN users THEN ErrUserNotFound
  ELSE IF users[id].role # CLIENT THEN ErrOnlyClientsValidated
  ELSE NoError

\* PUT /:id/validate
UsersValidateError(id) ==
  IF id \notin DOMAIN users THEN ErrUserNotFound
  ELSE IF users[id].role # CLIENT THEN ErrOnlyClientsValidated
  ELSE IF users[id].validated THEN ErrAccountAlreadyValidated
  ELSE NoError

UsersValidateHandler(req, tok, id) ==
  LET h == "PUT /:id/validate"
  IN IF GateError(tok, StaffRoles) # NoError THEN UsersGateFail(req, h, tok, StaffRoles)
     ELSE IF UsersValidateError(id) = ErrUserNotFound THEN UsersFail(req, h, 404, ErrUserNotFound)
     ELSE IF UsersValidateError(id) # NoError THEN UsersFail(req, h, 400, UsersValidateError(id))
     ELSE /\ users' = SetValidated(id)
          /\ auditLog' = AuditCreate(AuditEntry(Authenticate(tok), "VALIDATE_CLIENT", {id}))
          /\ resp' = RoutedResponse(req, h, 200, NoError, id, FALSE)
          /\ UNCHANGED <<issued, nextClient, logins>>
          /\ UNCHANGED <<animalVars, reminderVars>>

\* DELETE /:id.  prisma.user.delete removes the user's rows in the tables
\* that reference it ("cascade will handle related records"): the user's
\* animals and appointments, and with an animal its appointments and
\* treatment notes.
AnimalsAfterUserDelete(id) ==
  [a \in {x \in DOMAIN animals : animals[x].ownerId # id} |-> animals[a]]

AppointmentsAfterUserDelete(id) ==
  [p \in {x \in DOMAIN appointments :
            /\ appointments[x].clientId # id
            /\ appointments[x].animalId \in DOMAIN AnimalsAfterUserDelete(id)}
     |-> appointments[p]]

NotesAfterUserDelete(id) ==
  [n \in {x \in DOMAIN treatmentNotes :
            treatmentNotes[x].animalId \in DOMAIN AnimalsAfterUserDelete(id)}
     |-> treatmentNotes[n]]

RemindersAfterUserDelete(id) ==
  [r \in {x \in DOMAIN reminders :
            reminders[x].appointmentId \in DOMAIN AppointmentsAfterUserDelete(id)}
     |-> reminders[r]]

\* The rows of audit_logs as they would be were they deleted with the user
\* they reference.
AuditAfterUserDeleteCascade(log, id) ==
  [e \in {x \in BagToSet(log) : x.userId # id} |-> log[e]]

\* The rows of audit_logs are kept when the user they reference is deleted.
AuditAfterUserDelete(log, id) == log

UsersDeleteHandler(req, tok, id) ==
  LET h == "DELETE /:id"
  IN IF GateError(tok, StaffRoles) # NoError THEN UsersGateFail(req, h, tok, StaffRoles)
     ELSE IF id \notin DOMAIN users THEN UsersFail(req, h, 404, ErrUserNotFound)
     ELSE IF users[id].role # CLIENT THEN UsersFail(req, h, 400, ErrOnlyClientsDeleted)
     ELSE /\ auditLog' = AuditAfterUserDelete(
                           AuditCreate(AuditEntry(Authenticate(tok), "DELETE_CLIENT", {id})), id)
          /\ users' = [u \in DOMAIN users \ {id} |-> users[u]]
          /\ animals' = AnimalsAfterUserDelete(id)
          /\ appointments' = AppointmentsAfterUserDelete(id)
          /\ treatmentNotes' = NotesAfterUserDelete(id)
          /\ reminders' = RemindersAfterUserDelete(id)
          /\ resp' = RoutedResponse(req, h, 200, NoError, id, FALSE)
          /\ UNCHANGED <<issued, nextClient, logins, nextAnimal, nextAppointment, nextNote>>
          /\ UNCHANGED <<manualReminders, nextManual, nextReminder, now, inflight>>

\* PUT /:id, with the e-mail of the body (<<>> when the body has none).  The
\* names and the phone of the body are written the same way and read by no
\* other route.
UpdatedUserNeedsRevalidation(user, email) ==
  IF email # <<>> THEN [user EXCEPT !.email = email, !.validated = FALSE] ELSE user

UpdatedUser(user, email) ==
  IF email # <<>> THEN [user EXCEPT !.email = email] ELSE user

UsersUpdateHandler(req, tok, id, email) ==
  LET h == "PUT /:id"
  IN IF GateError(tok, StaffRoles) # NoError THEN UsersGateFail(req, h, tok, StaffRoles)
     ELSE IF id \notin DOMAIN users THEN UsersFail(req, h, 404, ErrUserNotFound)
     ELSE IF users[id].role # CLIENT THEN UsersFail(req, h, 400, ErrOnlyClientsUpdated)
     ELSE IF email # <<>> /\ FindByEmail(email) \ {id} # {}
     THEN UsersFail(req, h, 400, ErrEmailTaken)
     ELSE /\ users' = [users EXCEPT ![id] = UpdatedUser(users[id], email)]
          /\ resp' = RoutedResponse(req, h, 200, NoError, id, FALSE)
          /\ UNCHANGED <<auditLog, issued, nextClient, logins>>
          /\ UNCHANGED <<animalVars, reminderVars>>

\* PUT /bulk/validate, with the clientIds of the body (a set; {} also stands
\* for a body without the array).
BulkValidated(clientIds) ==
  {u \in DOMAIN users :
     u \in clientIds /\ users[u].role = CLIENT /\ ~users[u].validated}

UsersBulkValidateHandler(req, tok, clientIds) ==
  LET h == "PUT /bulk/validate"
  IN IF GateError(tok, {ADMIN}) # NoError THEN UsersGateFail(req, h, tok, {ADMIN})
     ELSE IF clientIds = {} THEN UsersFail(req, h, 400, ErrClientIdsRequired)
     ELSE /\ users' = [u \in DOMAIN users |->
                         IF u \in BulkValidated(clientIds)
                         THEN [users[u] EXCEPT !.validated = TRUE] ELSE users[u]]
          /\ auditLog' = AuditCreate(AuditEntry(Authenticate(tok),
                                                "BULK_VALIDATE_CLIENTS", clientIds))
          /\ resp' = RoutedResponse(req, h, 200, NoError, NoId, FALSE)
          /\ UNCHANGED <<issued, nextClient, logins>>
          /\ UNCHANGED <<animalVars, reminderVars>>

\* GET /clients
UsersClientsHandler(req, tok) ==
  LET h == "GET /clients"
  IN IF GateError(tok, StaffRoles) # NoError THEN UsersGateFail(req, h, tok, StaffRoles)
     ELSE /\ resp' = [RoutedResponse(req, h, 200, NoError, Authenticate(tok), FALSE)
                        EXCEPT !.data = {u \in DOMAIN users : users[u].role = CLIENT}]
          /\ UNCHANGED <<authVars, animalVars, reminderVars>>

\* GET /:id
UsersGetHandler(req, tok, id) ==
  LET h == "GET /:id"
  IN IF GateError(tok, StaffRoles) # NoError THEN UsersGateFail(req, h, tok, StaffRoles)
     ELSE IF id \notin DOMAIN users THEN UsersFail(req, h, 404, ErrClientNotFound)
     ELSE /\ resp' = [RoutedResponse(req, h, 200, NoError, id, FALSE)
                        EXCEPT !.data = {id}]
          /\ UNCHANGED <<authVars, animalVars, reminderVars>>

\* GET /search, with the q of the query string ("" for none): the clients
\* whose e-mail contains q, compared without case.
Contains(s, q) ==
  \E i \in 0..(Len(s) - Len(q)) : SubSeq(s, i + 1, i + Len(q)) = q

UsersSearchHandler(req, tok, q) ==
  LET h == "GET /search"
  IN IF GateError(tok, StaffRoles) # NoError THEN UsersGateFail(req, h, tok, StaffRoles)
     ELSE IF q = <<>> THEN UsersFail(req, h, 400, ErrSearchRequired)
     ELSE /\ resp' = [RoutedResponse(req, h, 200, NoError, Authenticate(tok), FALSE)
                        EXCEPT !.data =
                          {u \in DOMAIN users :
                             /\ users[u].role = CLIENT
                             /\ Contains(ToLowerCase(users[u].email), ToLowerCase(q))}]
          /\ UNCHANGED <<authVars, animalVars, reminderVars>>

\* A request to the users router: req names the request, tok is the bearer
\* token, body the request body [email, clientIds] and, for a GET, the q of
\* the query string.
UsersRouter(req, method, path, tok, body) ==
  LET h == Dispatch(usersRoutes, method, path)
  IN CASE h = "GET /clients" -> UsersClientsHandler(req, tok)
       [] h = "GET /:id" -> UsersGetHandler(req, tok, path[1])
       [] h = "GET /search" -> UsersSearchHandler(req, tok, body.q)
       [] h = "PUT /:id/validate" -> UsersValidateHandler(req, tok, path[1])
       [] h = "DELETE /:id" -> UsersDeleteHandler(req, tok, path[1])
       [] h = "PUT /:id" -> UsersUpdateHandler(req, tok, path[1], body.email)
       [] h = "PUT /bulk/validate" -> UsersBulkValidateHandler(req, tok, body.clientIds)
       [] h = "" -> UsersFail(req, "", 404, ErrNoRoute)

EmptyBody == [email |-> <<>>, clientIds |-> {}, q |-> <<>>]

GetUsersClients(tok) ==
  UsersRouter("GET /users/clients", "GET", <<"clients">>, tok, EmptyBody)

GetUsersId(tok, id) ==
  UsersRouter("GET /users/:id", "GET", <<id>>, tok, EmptyBody)

GetUsersSearch(tok, q) ==
  UsersRouter("GET /users/search", "GET", <<"search">>, tok,
              [EmptyBody EXCEPT !.q = q])

PutUsersIdValidate(tok, id) ==
  UsersRouter("PUT /users/:id/validate", "PUT", <<id, "validate">>, tok, EmptyBody)

PutUsersBulkValidate(tok, clientIds) ==
  UsersRouter("PUT /users/bulk/validate", "PUT", <<"bulk", "validate">>, tok,
              [EmptyBody EXCEPT !.clientIds = clientIds])

DeleteUsersId(tok, id) ==
  UsersRouter("DELETE /users/:id", "DELETE", <<id>>, tok, EmptyBody)

PutUsersId(tok, id, email) ==
  UsersRouter("PUT /users/:id", "PUT", <<id>>, tok, [EmptyBody EXCEPT !.email = email])

(***************************************************************************)
(* The animals router (routes/animals.ts): every route runs                *)
(* authenticateToken only; a CLIENT caller sees the animals it owns, staff *)
(* see all.                                                                *)
(***************************************************************************)
Undefined == "undefined"

\* The lookup as it would be without the owner in its where clause.
FindAnimalAnyOwner(caller, id) == id \in DOMAIN animals

\* findFirst({ where: isAdmin ? { id } : { id, ownerId: req.user.id } })
FindAnimal(caller, id) ==
  /\ id \in DOMAIN animals
  /\ IsAdmin(caller) \/ animals[id].ownerId = caller

\* createAnimalSchema / updateAnimalSchema: name is z.string().min(1), and
\* optional on update.  The other fields are checked alike and read by no
\* route.
CreateSchemaOk(name) == name # Undefined /\ name # ""
UpdateSchemaOk(name) == name # ""

\* prisma.appointment.findFirst / prisma.treatmentNote.findFirst
HasAppointments(id) == \E p \in DOMAIN appointments : appointments[p].animalId = id
HasTreatmentNotes(id) == \E n \in DOMAIN treatmentNotes : treatmentNotes[n].animalId = id

\* GET /animals: prisma.animal.findMany, all rows for staff, the caller's
\* own otherwise.
AnimalsWhere(caller) ==
  {a \in DOMAIN animals : IsAdmin(caller) \/ animals[a].ownerId = caller}

GetAnimals(tok) ==
  LET op == "GET /animals"
      caller == Authenticate(tok)
  IN /\ IF caller = NoId
        THEN resp' = Fail(op, 401, ErrUnauthorized)
        ELSE resp' = [Response(op, 200, NoError, caller, FALSE)
                        EXCEPT !.data = AnimalsWhere(caller)]
     /\ UNCHANGED animalVars
     /\ UNCHANGED <<authVars, reminderVars>>

\* GET /animals/:id
GetAnimalsId(tok, id) ==
  LET op == "GET /animals/:id"
      caller == Authenticate(tok)
  IN /\ IF caller = NoId
        THEN resp' = Fail(op, 401, ErrUnauthorized)
        ELSE IF ~FindAnimal(caller, id)
        THEN resp' = Fail(op, 404, ErrAnimalNotFound)
        ELSE resp' = [Response(op, 200, NoError, caller, FALSE)
                        EXCEPT !.data = {id}]
     /\ UNCHANGED animalVars
     /\ UNCHANGED <<authVars, reminderVars>>

\* POST /animals
PostAnimals(tok, name) ==
  LET op == "POST /animals"
      caller == Authenticate(tok)
      id == AnimalId(nextAnimal + 1)
  IN /\ IF caller = NoId
        THEN resp' = Fail(op, 401, ErrUnauthorized) /\ UNCHANGED animalVars
        ELSE IF ~CreateSchemaOk(name)
        THEN resp' = Fail(op, 400, ErrValidation) /\ UNCHANGED animalVars
        ELSE /\ nextAnimal < MaxAnimals
             /\ animals' = [a \in DOMAIN animals \cup {id} |->
                              IF a = id THEN [ownerId |-> caller, name |-> name]
                              ELSE animals[a]]
             /\ nextAnimal' = nextAnimal + 1
             /\ resp' = Response(op, 201, NoError, caller, FALSE)
             /\ UNCHANGED <<appointments, nextAppointment, treatmentNotes, nextNote>>
     /\ UNCHANGED <<authVars, reminderVars>>

\* PUT /animals/:id
PutAnimalsId(tok, id, name) ==
  LET op == "PUT /animals/:id"
      caller == Authenticate(tok)
  IN /\ IF caller = NoId
        THEN resp' = Fail(op, 401, ErrUnauthorized) /\ UNCHANGED animalVars
        ELSE IF ~UpdateSchemaOk(name)
        THEN resp' = Fail(op, 400, ErrValidation) /\ UNCHANGED animalVars
        ELSE IF ~FindAnimal(caller, id)
        THEN resp' = Fail(op, 404, ErrAnimalNotFoundUpdate) /\ UNCHANGED animalVars
        ELSE /\ animals' = IF name = Undefined THEN animals
                           ELSE [animals EXCEPT ![id].name = name]
             /\ resp' = Response(op, 200, NoError, caller, FALSE)
             /\ UNCHANGED <<nextAnimal, appointments, nextAppointment,
                            treatmentNotes, nextNote>>
     /\ UNCHANGED <<authVars, reminderVars>>

\* The dependency check as it would be with one of its two queries missing.
DeleteBlockedAppointmentsOnly(id) == HasAppointments(id)
DeleteBlockedNotesOnly(id) == HasTreatmentNotes(id)

\* DELETE /animals/:id
DeleteBlocked(id) == HasAppointments(id) \/ HasTreatmentNotes(id)

DeleteAnimalsId(tok, id) ==
  LET op == "DELETE /animals/:id"
      caller == Authenticate(tok)
  IN /\ IF caller = NoId
        THEN resp' = Fail(op, 401, ErrUnauthorized) /\ UNCHANGED animalVars
        ELSE IF ~FindAnimal(caller, id)
        THEN resp' = Fail(op, 404, ErrAnimalNotFoundDelete) /\ UNCHANGED animalVars
        ELSE IF DeleteBlocked(id)
        THEN resp' = Fail(op, 400, ErrAnimalHasDependents) /\ UNCHANGED animalVars
        ELSE /\ animals' = [a \in DOMAIN animals \ {id} |-> animals[a]]
             /\ resp' = Response(op, 200, NoError, caller, FALSE)
             /\ UNCHANGED <<nextAnimal, appointments, nextAppointment,
                            treatmentNotes, nextNote>>
     /\ UNCHANGED <<authVars, reminderVars>>

(***************************************************************************)
(* Rows of appointments and treatment_notes.  The routes that write them   *)
(* are not among the sources; a booking creates a SCHEDULED appointment of *)
(* the caller for an animal the caller sees, and staff record a treatment  *)
(* note for an animal.                                                     *)
(***************************************************************************)
StartTime == 2 * DayMinutes

CreateAppointment(tok, animalId) ==
  LET caller == Authenticate(tok)
      id == AppointmentId(nextAppointment + 1)
  IN /\ caller # NoId
     /\ FindAnimal(caller, animalId)
     /\ nextAppointment < MaxAppointments
     /\ appointments' = [p \in DOMAIN appointments \cup {id} |->
                           IF p = id
                           THEN [animalId |-> animalId, clientId |-> caller,
                                 status |-> "SCHEDULED", startTime |-> StartTime]
                           ELSE appointments[p]]
     /\ nextAppointment' = nextAppointment + 1
     /\ resp' = Response("POST /appointments", 201, NoError, caller, FALSE)
     /\ UNCHANGED <<animals, nextAnimal, treatmentNotes, nextNote>>
     /\ UNCHANGED <<authVars, reminderVars>>

CreateTreatmentNote(tok, animalId) ==
  LET caller == Authenticate(tok)
      id == NoteId(nextNote + 1)
  IN /\ caller # NoId
     /\ IsAdmin(caller)
     /\ animalId \in DOMAIN animals
     /\ nextNote < MaxNotes
     /\ treatmentNotes' = [n \in DOMAIN treatmentNotes \cup {id} |->
                             IF n = id THEN [animalId |-> animalId]
                             ELSE treatmentNotes[n]]
     /\ nextNote' = nextNote + 1
     /\ resp' = Response("POST /treatment-notes", 201, NoError, caller, FALSE)
     /\ UNCHANGED <<animals, nextAnimal, appointments, nextAppointment>>
     /\ UNCHANGED <<authVars, reminderVars>>

(***************************************************************************)
(* The appointment status lifecycle.  The routes behind                    *)
(* apiClient.confirmAppointment, refuseAppointment and cancelAppointment   *)
(* are not among the sources; the transitions are those of the             *)
(* specification's lifecycle section, and the buttons are those of         *)
(* AppointmentsTab.                                                        *)
(***************************************************************************)
ErrAppointmentTransition == "Invalid appointment status"

\* AppointmentsTab shows Confirm and Refuse to staff on a SCHEDULED
\* appointment, and Cancel on an appointment neither CANCELLED nor COMPLETED.
ShowsConfirmRefuse(role, status) == role # CLIENT /\ status = "SCHEDULED"
ShowsCancel(status) == status # "CANCELLED" /\ status # "COMPLETED"

AppointmentsFail(op, status, error) ==
  /\ resp' = Fail(op, status, error)
  /\ UNCHANGED <<authVars, animalVars, reminderVars>>

\* The staff-only transition as it would be without the check of the
\* current status.
StaffTransitionAnyStatus(op, tok, id, from, to) ==
  IF GateError(tok, StaffRoles) # NoError
  THEN AppointmentsFail(op, GateStatus(tok, StaffRoles), GateError(tok, StaffRoles))
  ELSE IF id \notin DOMAIN appointments
  THEN AppointmentsFail(op, 404, ErrAppointmentNotFound)
  ELSE /\ appointments' = [appointments EXCEPT ![id].status = to]
       /\ resp' = Response(op, 200, NoError, Authenticate(tok), FALSE)
       /\ UNCHANGED <<animals, nextAnimal, nextAppointment, treatmentNotes, nextNote>>
       /\ UNCHANGED <<authVars, reminderVars>>

\* A staff-only transition of appointment id from one status to another.
StaffTransition(op, tok, id, from, to) ==
  IF GateError(tok, StaffRoles) # NoError
  THEN AppointmentsFail(op, GateStatus(tok, StaffRoles), GateError(tok, StaffRoles))
  ELSE IF id \notin DOMAIN appointments
  THEN AppointmentsFail(op, 404, ErrAppointmentNotFound)
  ELSE IF appointments[id].status # from
  THEN AppointmentsFail(op, 400, ErrAppointmentTransition)
  ELSE /\ appointments' = [appointments EXCEPT ![id].status = to]
       /\ resp' = Response(op, 200, NoError, Authenticate(tok), FALSE)
       /\ UNCHANGED <<animals, nextAnimal, nextAppointment, treatmentNotes, nextNote>>
       /\ UNCHANGED <<authVars, reminderVars>>

ConfirmAppointment(tok, id) ==
  StaffTransition("confirmAppointment", tok, id, "SCHEDULED", "CONFIRMED")

RefuseAppointment(tok, id) ==
  StaffTransition("refuseAppointment", tok, id, "SCHEDULED", "CANCELLED")

CompleteAppointment(tok, id) ==
  StaffTransition("completeAppointment", tok, id, "CONFIRMED", "COMPLETED")

\* cancel as it would be were every status cancellable.
CancelFromAnyStatus(status) == TRUE

\* cancel: from any status that is not terminal; a client cancels its own
\* appointments, staff any.
CancelAllowedFrom(status) == status \in {"SCHEDULED", "CONFIRMED"}

CancelAppointment(tok, id) ==
  LET op == "cancelAppointment"
      caller == Authenticate(tok)
  IN IF caller = NoId THEN AppointmentsFail(op, 401, ErrUnauthorized)
     ELSE IF \/ id \notin DOMAIN appointments
             \/ ~IsAdmin(caller) /\ appointments[id].clientId # caller
     THEN AppointmentsFail(op, 404, ErrAppointmentNotFound)
     ELSE IF ~CancelAllowedFrom(appointments[id].status)
     THEN AppointmentsFail(op, 400, ErrAppointmentTransition)
     ELSE /\ appointments' = [appointments EXCEPT ![id].status = "CANCELLED"]
          /\ resp' = Response(op, 200, NoError, caller, FALSE)
          /\ UNCHANGED <<animals, nextAnimal, nextAppointment, treatmentNotes, nextNote>>
          /\ UNCHANGED <<authVars, reminderVars>>

(***************************************************************************)
(* routes/reminders.ts                                                     *)
(***************************************************************************)
ErrReminderValidation == "Validation error"
ErrCreateReminderDb == "Failed to create reminder in database"
ErrManualNotFound == "Manual reminder not found"
ErrUpdateReminderDb == "Failed to update reminder in database"
ErrReminderNotFound == "Reminder not found"
ErrSnoozeDuration == "Invalid snooze duration"
ErrAppointmentIdRequired == "Appointment ID is required"

\* A date string of a request or of a response: its format and the instant
\* (in minutes) it denotes; "garbage" is a string no Date parses.
DateString(fmt, t) == [fmt |-> fmt, t |-> t]
GarbageDate == DateString("garbage", 0)

\* The time value of an Invalid Date.
NaN == -1

\* new Date(string), as its time value, and Date.prototype.toISOString.
NewDate(s) == IF s.fmt = "garbage" THEN NaN ELSE s.t
ToISOString(d) == DateString("iso", d)

ReminderTypes ==
  {"APPOINTMENT_REMINDER", "FOLLOW_UP", "APPOINTMENT_CONFIRMATION", "BIRTHDAY"}

\* The mapping as it would be were every string a ReminderType.
mapStringToReminderTypeUnchecked(typeString) == typeString

mapStringToReminderType(typeString) ==
  IF typeString \in ReminderTypes THEN typeString ELSE "FOLLOW_UP"

ManualId(n) == "manual-" \o ToString(n)
ReminderId(n) == "r" \o ToString(n)

\* String.prototype.startsWith
StartsWith(s, prefix) ==
  Len(s) >= Len(prefix) /\ SubSeq(s, 1, Len(prefix)) = prefix

\* String.prototype.toUpperCase, on the priorities.
ToUpperCase(s) ==
  CASE s = "high" -> "HIGH" [] s = "medium" -> "MEDIUM" [] s = "low" -> "LOW"
    [] OTHER -> s

\* A request body is a function from the names of its fields.
Has(body, field) == field \in DOMAIN body

\* createReminderSchema.parse: whether it passes, and the parsed body with
\* the defaults.  "" stands for an absent appointmentId, which the handler
\* tests for truth.
ReminderSchemaOk(body) ==
  /\ Has(body, "message") /\ body.message # ""
  /\ Has(body, "dueDate")
  /\ Has(body, "priority") => body.priority \in {"HIGH", "MEDIUM", "LOW"}

ReminderSchemaParse(body) ==
  [message |-> body.message,
   type |-> IF Has(body, "type") THEN body.type ELSE "MANUAL",
   dueDate |-> body.dueDate,
   priority |-> IF Has(body, "priority") THEN body.priority ELSE "MEDIUM",
   appointmentId |-> IF Has(body, "appointmentId") THEN body.appointmentId ELSE ""]

\* The ReminderResponse of a row of reminders.
DbResponse(id) ==
  [id |-> id, message |-> reminders[id].message, type |-> reminders[id].type,
   dueDate |-> ToISOString(reminders[id].remindAt),
   completed |-> reminders[id].sent, priority |-> "MEDIUM",
   appointmentId |-> reminders[id].appointmentId]

RemindersFail(op, status, error) ==
  /\ resp' = Fail(op, status, error)
  /\ UNCHANGED <<authVars, animalVars, reminderVars>>

RemindersGateFail(op, tok) ==
  RemindersFail(op, GateStatus(tok, StaffRoles), GateError(tok, StaffRoles))

\* GET /reminders.  The comparator of the sort.
DueTime(r) == NewDate(r.dueDate)

\* The comparator's NaN is read as +0 by Array.prototype.sort.
CompareDueDate(a, b) ==
  IF DueTime(a) = NaN \/ DueTime(b) = NaN THEN 0 ELSE DueTime(a) - DueTime(b)

\* The ids of the Map in insertion order, and of the rows the query finds
\* (their order before the sort has no part in SortOutcomes).
RECURSIVE IdsInOrder(_, _, _)
IdsInOrder(Id(_), n, present) ==
  IF n = 0 THEN <<>>
  ELSE IF Id(n) \in present
       THEN Append(IdsInOrder(Id, n - 1, present), Id(n))
       ELSE IdsInOrder(Id, n - 1, present)

AllReminders ==
  LET db == IdsInOrder(ReminderId, nextReminder,
                       {r \in DOMAIN reminders :
                          reminders[r].appointmentId \in DOMAIN appointments})
      manual == IdsInOrder(ManualId, nextManual,
                           {m \in DOMAIN manualReminders :
                              ~manualReminders[m].completed})
  IN [i \in 1..Len(db) |-> DbResponse(db[i])]
       \o [i \in 1..Len(manual) |-> manualReminders[manual[i]]]

\* Array.prototype.sort.  With a consistent comparator the sort is stable:
\* ascending, and entries that compare equal keep their order.  With a NaN
\* among the comparisons the comparator is not consistent and the order is
\* implementation-defined: any permutation that no comparison of neighbours
\* contradicts.
Consistent(array) == \A i \in 1..Len(array) : DueTime(array[i]) # NaN

\* The stable ascending order: an entry comes after those that compare
\* lower and after those before it that compare equal.
StableSort(array) ==
  LET n == Len(array)
      rank(i) == Cardinality({j \in 1..n :
                                \/ CompareDueDate(array[j], array[i]) < 0
                                \/ /\ CompareDueDate(array[j], array[i]) = 0
                                   /\ j < i}) + 1
  IN [k \in 1..n |-> array[CHOOSE i \in 1..n : rank(i) = k]]

SortOutcomes(array) ==
  IF Consistent(array) THEN {StableSort(array)}
  ELSE {[i \in 1..Len(array) |-> array[f[i]]] :
          f \in {g \in Permutations(1..Len(array)) :
                   \A i \in 1..(Len(array) - 1) :
                     CompareDueDate(array[g[i]], array[g[i + 1]]) <= 0}}

GetReminders(tok) ==
  LET op == "GET /reminders"
  IN IF GateError(tok, StaffRoles) # NoError THEN RemindersGateFail(op, tok)
     ELSE /\ \E sorted \in SortOutcomes(AllReminders) :
               resp' = [Response(op, 200, NoError, Authenticate(tok), FALSE)
                          EXCEPT !.list = sorted]
          /\ UNCHANGED <<authVars, animalVars, reminderVars>>

\* POST /reminders
PostReminders(tok, body) ==
  LET op == "POST /reminders"
      data == ReminderSchemaParse(body)
      rid == ReminderId(nextReminder + 1)
      mid == ManualId(nextManual + 1)
      manualReminder == [id |-> mid, message |-> data.message, type |-> data.type,
                         dueDate |-> data.dueDate, completed |-> FALSE,
                         priority |-> data.priority]
  IN IF GateError(tok, StaffRoles) # NoError THEN RemindersGateFail(op, tok)
     ELSE IF ~ReminderSchemaOk(body) THEN RemindersFail(op, 400, ErrReminderValidation)
     ELSE IF data.appointmentId # ""
     THEN IF data.appointmentId \notin DOMAIN appointments
          THEN RemindersFail(op, 404, ErrAppointmentNotFound)
          ELSE IF NewDate(data.dueDate) = NaN
          THEN RemindersFail(op, 500, ErrCreateReminderDb)
          ELSE /\ nextReminder < MaxPosted
               /\ reminders' = [r \in DOMAIN reminders \cup {rid} |->
                                  IF r = rid
                                  THEN [message |-> data.message,
                                        type |-> mapStringToReminderType(data.type),
                                        remindAt |-> NewDate(data.dueDate),
                                        sent |-> FALSE,
                                        appointmentId |-> data.appointmentId]
                                  ELSE reminders[r]]
               /\ nextReminder' = nextReminder + 1
               /\ resp' = [Response(op, 201, NoError, Authenticate(tok), FALSE)
                             EXCEPT !.list =
                               <<[id |-> rid, message |-> data.message,
                                  type |-> data.type,
                                  dueDate |-> ToISOString(NewDate(data.dueDate)),
                                  completed |-> FALSE, priority |-> data.priority,
                                  appointmentId |-> data.appointmentId]>>]
               /\ UNCHANGED <<manualReminders, nextManual, now, inflight>>
               /\ UNCHANGED <<authVars, animalVars>>
     ELSE /\ nextManual < MaxManual
          /\ manualReminders' = [m \in DOMAIN manualReminders \cup {mid} |->
                                   IF m = mid THEN manualReminder
                                   ELSE manualReminders[m]]
          /\ nextManual' = nextManual + 1
          /\ resp' = [Response(op, 201, NoError, Authenticate(tok), FALSE)
                        EXCEPT !.list = <<manualReminder>>]
          /\ UNCHANGED <<reminders, nextReminder, now, inflight>>
          /\ UNCHANGED <<authVars, animalVars>>

\* Truthiness of a string field of a body: present and not "".  Every date
\* string requests carry is non-empty.
Truthy(body, field) ==
  Has(body, field) /\ (field # "dueDate" => body[field] # "")

\* The in-memory update as it would be with the body spread before the
\* stored reminder: { ...updateData, ...existingReminder }.
UpdatedManualExistingWins(existing, updateData) ==
  [f \in DOMAIN existing \cup DOMAIN updateData |->
     IF Has(existing, f) THEN existing[f] ELSE updateData[f]]

\* PUT /reminders/:id, the in-memory branch: the spread of the stored
\* reminder, then of the body, then the priority.
UpdatedManual(existing, updateData) ==
  [f \in DOMAIN existing \cup DOMAIN updateData |->
     IF f = "priority"
     THEN IF Truthy(updateData, "priority")
          THEN ToUpperCase(updateData.priority) ELSE existing.priority
     ELSE IF Has(updateData, f) THEN updateData[f] ELSE existing[f]]

\* PUT /reminders/:id, the database branch: the row after updateFields.
UpdatedRow(row, updateData) ==
  [message |-> IF Truthy(updateData, "message") THEN updateData.message
               ELSE row.message,
   type |-> IF Truthy(updateData, "type")
            THEN mapStringToReminderType(updateData.type) ELSE row.type,
   remindAt |-> IF Truthy(updateData, "dueDate") THEN NewDate(updateData.dueDate)
                ELSE row.remindAt,
   sent |-> IF Has(updateData, "completed") THEN updateData.completed
            ELSE row.sent,
   appointmentId |-> row.appointmentId]

\* prisma.reminder.update throws when no row has the id, and when a date of
\* the data is an Invalid Date.
UpdateThrows(id, updateData) ==
  \/ id \notin DOMAIN reminders
  \/ Truthy(updateData, "dueDate") /\ NewDate(updateData.dueDate) = NaN

PutRemindersId(tok, id, updateData) ==
  LET op == "PUT /reminders/:id"
  IN IF GateError(tok, StaffRoles) # NoError THEN RemindersGateFail(op, tok)
     ELSE IF StartsWith(id, "manual-")
     THEN IF id \notin DOMAIN manualReminders
          THEN RemindersFail(op, 404, ErrManualNotFound)
          ELSE /\ manualReminders' =
                    [manualReminders EXCEPT
                       ![id] = UpdatedManual(manualReminders[id], updateData)]
               /\ resp' = [Response(op, 200, NoError, Authenticate(tok), FALSE)
                             EXCEPT !.list = <<manualReminders'[id]>>]
               /\ UNCHANGED <<nextManual, reminders, nextReminder, now, inflight>>
               /\ UNCHANGED <<authVars, animalVars>>
     ELSE IF UpdateThrows(id, updateData)
     THEN RemindersFail(op, 500, ErrUpdateReminderDb)
     ELSE /\ reminders' = [reminders EXCEPT ![id] = UpdatedRow(reminders[id], updateData)]
          /\ resp' = [Response(op, 200, NoError, Authenticate(tok), FALSE)
                        EXCEPT !.list =
                          <<[id |-> id, message |-> reminders'[id].message,
                             type |-> IF Truthy(updateData, "type")
                                      THEN updateData.type ELSE reminders'[id].type,
                             dueDate |-> ToISOString(reminders'[id].remindAt),
                             completed |-> reminders'[id].sent,
                             priority |-> IF Truthy(updateData, "priority")
                                          THEN updateData.priority ELSE "MEDIUM",
                             appointmentId |-> reminders'[id].appointmentId]>>]
          /\ UNCHANGED <<manualReminders, nextManual, nextReminder, now, inflight>>
          /\ UNCHANGED <<authVars, animalVars>>

\* PUT /reminders/:id/complete, the in-memory branch: the spread of the
\* stored reminder, then completed: true.
CompletedManual(existing) ==
  [f \in DOMAIN existing \cup {"completed"} |->
     IF f = "completed" THEN TRUE ELSE existing[f]]

\* PUT /reminders/:id/complete
PutRemindersIdComplete(tok, id) ==
  LET op == "PUT /reminders/:id/complete"
  IN IF GateError(tok, StaffRoles) # NoError THEN RemindersGateFail(op, tok)
     ELSE IF StartsWith(id, "manual-")
     THEN IF id \notin DOMAIN manualReminders
          THEN RemindersFail(op, 404, ErrManualNotFound)
          ELSE /\ manualReminders' =
                    [manualReminders EXCEPT
                       ![id] = CompletedManual(manualReminders[id])]
               /\ resp' = [Response(op, 200, NoError, Authenticate(tok), FALSE)
                             EXCEPT !.list = <<[id |-> id, completed |-> TRUE]>>]
               /\ UNCHANGED <<nextManual, reminders, nextReminder, now, inflight>>
               /\ UNCHANGED <<authVars, animalVars>>
     ELSE IF id \notin DOMAIN reminders
     THEN RemindersFail(op, 404, ErrReminderNotFound)
     ELSE /\ reminders' = [reminders EXCEPT ![id].sent = TRUE]
          /\ resp' = [Response(op, 200, NoError, Authenticate(tok), FALSE)
                        EXCEPT !.list = <<[id |-> id, completed |-> TRUE]>>]
          /\ UNCHANGED <<manualReminders, nextManual, nextReminder, now, inflight>>
          /\ UNCHANGED <<authVars, animalVars>>

\* DELETE /reminders/:id
DeleteRemindersId(tok, id) ==
  LET op == "DELETE /reminders/:id"
  IN IF GateError(tok, StaffRoles) # NoError THEN RemindersGateFail(op, tok)
     ELSE IF StartsWith(id, "manual-")
     THEN IF id \notin DOMAIN manualReminders
          THEN RemindersFail(op, 404, ErrManualNotFound)
          ELSE /\ manualReminders' =
                    [m \in DOMAIN manualReminders \ {id} |-> manualReminders[m]]
               /\ resp' = Response(op, 200, NoError, Authenticate(tok), FALSE)
               /\ UNCHANGED <<nextManual, reminders, nextReminder, now, inflight>>
               /\ UNCHANGED <<authVars, animalVars>>
     ELSE IF id \notin DOMAIN reminders
     THEN RemindersFail(op, 404, ErrReminderNotFound)
     ELSE /\ reminders' = [r \in DOMAIN reminders \ {id} |-> reminders[r]]
          /\ resp' = Response(op, 200, NoError, Authenticate(tok), FALSE)
          /\ UNCHANGED <<manualReminders, nextManual, nextReminder, now, inflight>>
          /\ UNCHANGED <<authVars, animalVars>>

\* The new due date as it would be were the minutes not added to Date.now().
SnoozedDateWithoutNow(minutes) == minutes

\* new Date(Date.now() + minutes * 60 * 1000)
SnoozedDate(minutes) == now + minutes

\* PUT /reminders/:id/snooze, the in-memory branch: the spread of the
\* stored reminder, then the new due date.
SnoozedManual(existing, minutes) ==
  [f \in DOMAIN existing \cup {"dueDate"} |->
     IF f = "dueDate" THEN ToISOString(SnoozedDate(minutes)) ELSE existing[f]]

\* PUT /reminders/:id/snooze.  A body without minutes is a body whose
\* minutes is 0: the handler tests !minutes.
PutRemindersIdSnooze(tok, id, minutes) ==
  LET op == "PUT /reminders/:id/snooze"
  IN IF GateError(tok, StaffRoles) # NoError THEN RemindersGateFail(op, tok)
     ELSE IF minutes = 0 \/ minutes <= 0
     THEN RemindersFail(op, 400, ErrSnoozeDuration)
     ELSE IF StartsWith(id, "manual-")
     THEN IF id \notin DOMAIN manualReminders
          THEN RemindersFail(op, 404, ErrManualNotFound)
          ELSE /\ manualReminders' =
                    [manualReminders EXCEPT
                       ![id] = SnoozedManual(manualReminders[id], minutes)]
               /\ resp' = [Response(op, 200, NoError, Authenticate(tok), FALSE)
                             EXCEPT !.list = <<manualReminders'[id]>>]
               /\ UNCHANGED <<nextManual, reminders, nextReminder, now, inflight>>
               /\ UNCHANGED <<authVars, animalVars>>
     ELSE IF id \notin DOMAIN reminders
     THEN RemindersFail(op, 404, ErrReminderNotFound)
     ELSE /\ reminders' = [reminders EXCEPT ![id].remindAt = SnoozedDate(minutes)]
          /\ resp' = [Response(op, 200, NoError, Authenticate(tok), FALSE)
                        EXCEPT !.list =
                          <<[id |-> id, message |-> reminders[id].message,
                             type |-> reminders[id].type,
                             dueDate |-> ToISOString(SnoozedDate(minutes)),
                             completed |-> reminders[id].sent,
                             priority |-> "MEDIUM",
                             appointmentId |-> reminders[id].appointmentId]>>]
          /\ UNCHANGED <<manualReminders, nextManual, nextReminder, now, inflight>>
          /\ UNCHANGED <<authVars, animalVars>>

\* POST /reminders/booking: the three reminders of an appointment.  "" is
\* an absent appointmentId.
ErrBookingReminders == "Failed to create booking reminders"

\* One element of reminderData as it would be were it created as sent.
BookingReminderSent(type, appointmentId, remindAt) ==
  [message |-> type, type |-> type, remindAt |-> remindAt, sent |-> TRUE,
   appointmentId |-> appointmentId]

BookingReminder(type, appointmentId, remindAt) ==
  [message |-> type, type |-> type, remindAt |-> remindAt, sent |-> FALSE,
   appointmentId |-> appointmentId]

reminderData(appointment, appointmentId) ==
  <<BookingReminder("APPOINTMENT_CONFIRMATION", appointmentId,
                    appointment.startTime - DayMinutes),
    BookingReminder("APPOINTMENT_REMINDER", appointmentId,
                    appointment.startTime - TwoHourMinutes),
    BookingReminder("FOLLOW_UP", appointmentId,
                    appointment.startTime + WeekMinutes)>>

\* The inserts as they would be inside one transaction: all or none.
PersistedInTransaction(failed) == IF failed = {} THEN {1, 2, 3} ELSE {}

\* Promise.all over the three prisma.reminder.create calls: every insert is
\* issued before any is awaited, so each one that does not fail persists
\* its row whatever becomes of the others.
PersistedInserts(failed) == {1, 2, 3} \ failed

\* failed: the inserts the database rejects (none in a request that
\* succeeds).  Promise.all rejects when one of them does and the catch
\* answers 400.
PostRemindersBooking(tok, appointmentId, failed) ==
  LET op == "POST /reminders/booking"
      data == reminderData(appointments[appointmentId], appointmentId)
      created == {ReminderId(nextReminder + k) : k \in PersistedInserts(failed)}
  IN IF GateError(tok, StaffRoles) # NoError THEN RemindersGateFail(op, tok)
     ELSE IF appointmentId = "" THEN RemindersFail(op, 400, ErrAppointmentIdRequired)
     ELSE IF appointmentId \notin DOMAIN appointments
     THEN RemindersFail(op, 404, ErrAppointmentNotFound)
     ELSE /\ nextReminder + 3 <= MaxReminders
          /\ reminders' =
               [r \in DOMAIN reminders \cup created |->
                  CASE r = ReminderId(nextReminder + 1) -> data[1]
                    [] r = ReminderId(nextReminder + 2) -> data[2]
                    [] r = ReminderId(nextReminder + 3) -> data[3]
                    [] OTHER -> reminders[r]]
          /\ nextReminder' = nextReminder + 3
          /\ resp' = IF failed = {}
                     THEN [Response(op, 201, NoError, Authenticate(tok), FALSE)
                             EXCEPT !.data = created]
                     ELSE Fail(op, 400, ErrBookingReminders)
          /\ UNCHANGED <<manualReminders, nextManual, now, inflight>>
          /\ UNCHANGED <<authVars, animalVars>>

\* A restart as it would be were the Map kept across processes.
RestartKeepsMap ==
  /\ manualReminders # <<>>
  /\ inflight' = [s \in Slots |-> Idle]
  /\ resp' = Response("restart", 0, NoError, NoId, FALSE)
  /\ UNCHANGED <<manualReminders, nextManual, reminders, nextReminder, now>>
  /\ UNCHANGED <<authVars, animalVars>>

\* The process stops and starts again: the module is loaded anew and its
\* Map is empty, the requests it was handling are gone; the database keeps
\* its rows.
Restart ==
  /\ manualReminders # <<>>
  /\ manualReminders' = <<>>
  /\ inflight' = [s \in Slots |-> Idle]
  /\ resp' = Response("restart", 0, NoError, NoId, FALSE)
  /\ UNCHANGED <<nextManual, reminders, nextReminder, now>>
  /\ UNCHANGED <<authVars, animalVars>>

\* Date.now() advances.
Tick ==
  /\ now < MaxTime
  /\ now' = now + 1
  /\ resp' = Response("tick", 0, NoError, NoId, FALSE)
  /\ UNCHANGED <<manualReminders, nextManual, reminders, nextReminder, inflight>>
  /\ UNCHANGED <<authVars, animalVars>>

(***************************************************************************)
(* RemindersTab: the dashboard splits the listing into the active and the  *)
(* completed reminders and sorts the active ones by due date.              *)
(***************************************************************************)
NotCompleted(r) == ~r.completed
Completed(r) == r.completed

activeReminders(list) == SelectSeq(list, NotCompleted)
completedReminders(list) == SelectSeq(list, Completed)
sortedActiveReminders(list) == SortOutcomes(activeReminders(list))

(***************************************************************************)
(* Requests handled at the same time.  Node runs one callback at a time:   *)
(* a handler runs from one await to the next without another request's     *)
(* code in between, and at an await the process turns to the other         *)
(* requests.  A request in a slot stands at an await; each action below    *)
(* is the code of one request between two awaits.                          *)
(***************************************************************************)
Request(route, tok, id, arg) == [route |-> route, tok |-> tok, id |-> id, arg |-> arg]

\* The slots whose request is being handled, other than s.
InFlightWith(s) ==
  {o \in Slots \ {s} : inflight[o].pc \notin {"idle", "answered"}}

\* The request of slot s was answered; during: the requests that were being
\* handled at that moment.
Answered(s, status, error) ==
  [pc |-> "answered", req |-> inflight[s].req, during |-> InFlightWith(s),
   status |-> status, error |-> error]

\* The request reached the process: authenticateToken awaits the lookup of
\* the token's user.
ReceiveRequest(s, req) ==
  /\ inflight[s] = Idle
  /\ inflight' = [inflight EXCEPT ![s] = [pc |-> "received", req |-> req]]
  /\ UNCHANGED <<manualReminders, nextManual, reminders, nextReminder, now, resp>>
  /\ UNCHANGED <<authVars, animalVars>>

\* The in-memory branches of PUT /reminders/:id, /:id/complete and
\* /:id/snooze: from manualReminders.get to manualReminders.set and
\* res.json there is no await.
ManualRoutes ==
  {"PUT /reminders/:id", "PUT /reminders/:id/complete", "PUT /reminders/:id/snooze"}

ManualChange(existing, req) ==
  CASE req.route = "PUT /reminders/:id" -> UpdatedManual(existing, req.arg)
    [] req.route = "PUT /reminders/:id/complete" -> CompletedManual(existing)
    [] req.route = "PUT /reminders/:id/snooze" -> SnoozedManual(existing, req.arg)

ManualHandlerError(req) ==
  IF GateError(req.tok, StaffRoles) # NoError THEN GateError(req.tok, StaffRoles)
  ELSE IF req.route = "PUT /reminders/:id/snooze" /\ req.arg <= 0
  THEN ErrSnoozeDuration
  ELSE IF req.id \notin DOMAIN manualReminders THEN ErrManualNotFound
  ELSE NoError

ManualHandlerStatus(req) ==
  CASE ManualHandlerError(req) = NoError -> 200
    [] ManualHandlerError(req) = ErrSnoozeDuration -> 400
    [] ManualHandlerError(req) = ErrManualNotFound -> 404
    [] OTHER -> GateStatus(req.tok, StaffRoles)

RunManualHandler(s) ==
  LET req == inflight[s].req
  IN /\ inflight[s].pc = "received"
     /\ req.route \in ManualRoutes
     /\ StartsWith(req.id, "manual-")
     /\ manualReminders' =
          IF ManualHandlerError(req) = NoError
          THEN [manualReminders EXCEPT ![req.id] = ManualChange(manualReminders[req.id], req)]
          ELSE manualReminders
     /\ inflight' = [inflight EXCEPT
                       ![s] = Answered(s, ManualHandlerStatus(req), ManualHandlerError(req))]
     /\ resp' = Response(req.route, ManualHandlerStatus(req), ManualHandlerError(req),
                         IF ManualHandlerError(req) = NoError
                         THEN Authenticate(req.tok) ELSE NoId, FALSE)
     /\ UNCHANGED <<nextManual, reminders, nextReminder, now>>
     /\ UNCHANGED <<authVars, animalVars>>

\* The single-client validations and the deletion of a client: each reads
\* the user, checks the row it read and then writes twice, with an await
\* before each statement and no transaction around them.
ErrValidateFailed == "Failed to validate client account"
ErrDeleteFailed == "Failed to delete client account"
\* The message of the error prisma throws, which PUT
\* /auth/validate-client/:clientId answers as it is.
ErrPrismaThrown == "prisma error"

ValidationRoutes == {"validate-client", "PUT /users/:id/validate"}
UserRoutes == ValidationRoutes \cup {"DELETE /users/:id"}

\* DELETE /:id: the checks of the row findUnique returned.
UsersDeleteError(id) ==
  IF id \notin DOMAIN users THEN ErrUserNotFound
  ELSE IF users[id].role # CLIENT THEN ErrOnlyClientsDeleted
  ELSE NoError

\* What the handler answers on the row findUnique returned, "" when it goes
\* on to write.
FindError(req) ==
  CASE req.route = "validate-client" -> ValidateClientError(req.id)
    [] req.route = "PUT /users/:id/validate" -> UsersValidateError(req.id)
    [] req.route = "DELETE /users/:id" -> UsersDeleteError(req.id)

FindStatus(req) ==
  IF req.route # "validate-client" /\ FindError(req) = ErrUserNotFound
  THEN 404 ELSE 400

\* The answer of the handler's catch.
ThrownStatus(req) == IF req.route = "validate-client" THEN 400 ELSE 500

ThrownError(req) ==
  CASE req.route = "validate-client" -> ErrPrismaThrown
    [] req.route = "PUT /users/:id/validate" -> ErrValidateFailed
    [] req.route = "DELETE /users/:id" -> ErrDeleteFailed

\* The middlewares and prisma.user.findUnique with the checks of its row.
FindUser(s) ==
  LET req == inflight[s].req
      error == IF GateError(req.tok, StaffRoles) # NoError
               THEN GateError(req.tok, StaffRoles) ELSE FindError(req)
      status == IF GateError(req.tok, StaffRoles) # NoError
                THEN GateStatus(req.tok, StaffRoles) ELSE FindStatus(req)
  IN /\ inflight[s].pc = "received"
     /\ req.route \in UserRoutes
     /\ IF error # NoError
        THEN /\ inflight' = [inflight EXCEPT ![s] = Answered(s, status, error)]
             /\ resp' = Fail(req.route, status, error)
        ELSE /\ inflight' = [inflight EXCEPT
                               ![s] = [pc |-> "found", req |-> req,
                                       caller |-> Authenticate(req.tok)]]
             /\ UNCHANGED resp
     /\ UNCHANGED <<manualReminders, nextManual, reminders, nextReminder, now>>
     /\ UNCHANGED <<authVars, animalVars>>

\* The rows prisma.user.update and prisma.user.delete find: none when the
\* user is gone, and the statement throws.
RowOf(id) == {u \in DOMAIN users : u = id}

\* The audit entry of the route.
AuditOf(caller, req) ==
  CASE req.route = "validate-client" -> AuditEntry(caller, "CLIENT_VALIDATED", {req.id})
    [] req.route = "PUT /users/:id/validate" ->
         AuditEntry(caller, "VALIDATE_CLIENT", {req.id})
    [] req.route = "DELETE /users/:id" -> AuditEntry(caller, "DELETE_CLIENT", {req.id})

\* The first write: prisma.user.update of a validation, prisma.auditLog.create
\* of the deletion.  ok: the database carries the statement out.
FirstWrite(s, ok) ==
  LET req == inflight[s].req
      done == IF req.route \in ValidationRoutes THEN ok /\ RowOf(req.id) # {} ELSE ok
  IN /\ inflight[s].pc = "found"
     /\ IF done
        THEN /\ inflight' = [inflight EXCEPT ![s].pc = "written"]
             /\ users' = IF req.route \in ValidationRoutes
                         THEN SetValidated(req.id) ELSE users
             /\ auditLog' = IF req.route \in ValidationRoutes THEN auditLog
                            ELSE AuditCreate(AuditOf(inflight[s].caller, req))
             /\ UNCHANGED resp
        ELSE /\ inflight' = [inflight EXCEPT
                               ![s] = Answered(s, ThrownStatus(req), ThrownError(req))]
             /\ resp' = Fail(req.route, ThrownStatus(req), ThrownError(req))
             /\ UNCHANGED <<users, auditLog>>
     /\ UNCHANGED <<issued, nextClient, logins>>
     /\ UNCHANGED <<manualReminders, nextManual, reminders, nextReminder, now>>
     /\ UNCHANGED animalVars

\* The second write: prisma.auditLog.create of a validation, prisma.user.delete
\* of the deletion, and the response.
SecondWrite(s, ok) ==
  LET req == inflight[s].req
      id == req.id
      done == IF req.route \in ValidationRoutes THEN ok ELSE ok /\ RowOf(id) # {}
  IN /\ inflight[s].pc = "written"
     /\ IF done
        THEN /\ inflight' = [inflight EXCEPT ![s] = Answered(s, 200, NoError)]
             /\ resp' = Response(req.route, 200, NoError, id, FALSE)
             /\ IF req.route \in ValidationRoutes
                THEN /\ auditLog' = AuditCreate(AuditOf(inflight[s].caller, req))
                     /\ UNCHANGED <<users, animalVars, reminders>>
                ELSE /\ auditLog' = AuditAfterUserDelete(auditLog, id)
                     /\ users' = [u \in DOMAIN users \ {id} |-> users[u]]
                     /\ animals' = AnimalsAfterUserDelete(id)
                     /\ appointments' = AppointmentsAfterUserDelete(id)
                     /\ treatmentNotes' = NotesAfterUserDelete(id)
                     /\ reminders' = RemindersAfterUserDelete(id)
                     /\ UNCHANGED <<nextAnimal, nextAppointment, nextNote>>
        ELSE /\ inflight' = [inflight EXCEPT
                               ![s] = Answered(s, ThrownStatus(req), ThrownError(req))]
             /\ resp' = Fail(req.route, ThrownStatus(req), ThrownError(req))
             /\ UNCHANGED <<users, auditLog, animalVars, reminders>>
     /\ UNCHANGED <<issued, nextClient, logins>>
     /\ UNCHANGED <<manualReminders, nextManual, nextReminder, now>>

\* The tokens and ids requests are drawn from.  A bearer token is absent,
\* or an access token signed for a user, expired or not; a refresh request
\* may also carry garbage or a token signed with the other secret.
BearerInputs ==
  {NoToken} \cup [kind : {"access"}, userId : issued, expired : BOOLEAN]

RefreshInputs ==
  {NoToken, GarbageToken}
    \cup [kind : {"refresh"}, userId : issued, expired : BOOLEAN]
    \cup [kind : {"access"}, userId : issued, expired : {FALSE}]

AllClientIds == {ClientId(n) : n \in 1..MaxClients}
UserIdInputs == {StaffId} \cup AllClientIds
BulkInputs == {{ClientId(1)}, AllClientIds}

NextAuth ==
  \/ \E n \in BOOLEAN, e \in RegisterEmails, p \in RegisterPasswords : PostRegister(n, e, p)
  \/ \E e \in LoginEmails, p \in LoginPasswords : PostLogin(e, p)
  \/ \E t \in RefreshInputs : PostRefresh(t)
  \/ \E t \in BearerInputs, id \in UserIdInputs : PutAuthValidateClient(t, id)
  \/ \E t \in BearerInputs, id \in UserIdInputs : PutUsersIdValidate(t, id)
  \/ \E t \in BearerInputs, ids \in BulkInputs : PutUsersBulkValidate(t, ids)
  \/ \E t \in BearerInputs, id \in UserIdInputs : DeleteUsersId(t, id)
  \/ \E t \in BearerInputs, id \in UserIdInputs, e \in UpdateEmails : PutUsersId(t, id, e)

AllAnimalIds == {AnimalId(n) : n \in 1..MaxAnimals}
NameInputs == {Undefined, "", "Rex"}

NextAnimals ==
  \/ \E t \in BearerInputs, n \in NameInputs : PostAnimals(t, n)
  \/ \E t \in BearerInputs, id \in AllAnimalIds, n \in NameInputs \cup {"Max"} :
       PutAnimalsId(t, id, n)
  \/ \E t \in BearerInputs : GetAnimals(t)
  \/ \E t \in BearerInputs, id \in AllAnimalIds : GetAnimalsId(t, id)
  \/ \E t \in BearerInputs, id \in AllAnimalIds : DeleteAnimalsId(t, id)
  \/ \E t \in BearerInputs, id \in AllAnimalIds : CreateAppointment(t, id)
  \/ \E t \in BearerInputs, id \in AllAnimalIds : CreateTreatmentNote(t, id)
  \/ \E t \in BearerInputs, id \in UserIdInputs : DeleteUsersId(t, id)

(***************************************************************************)
(* The clinic at work: a staff account and two validated clients, all      *)
(* logged in (the state after two registrations, the staff login, two      *)
(* validations and the clients' logins).                                   *)
(***************************************************************************)
ClientUser(email) ==
  [email |-> email, password |-> BcryptHash("secret1"), role |-> CLIENT,
   validated |-> TRUE]

InitAnimals ==
  /\ \E role \in StaffRoles :
       users = [u \in {StaffId, ClientId(1), ClientId(2)} |->
                  IF u = StaffId THEN StaffUser(role, TRUE)
                  ELSE IF u = ClientId(1) THEN ClientUser(<<"a">>)
                  ELSE ClientUser(<<"b">>)]
  /\ auditLog = SetToBag({AuditEntry(ClientId(1), "USER_REGISTERED", {}),
                          AuditEntry(ClientId(2), "USER_REGISTERED", {}),
                          AuditEntry(StaffId, "USER_LOGIN", {}),
                          AuditEntry(StaffId, "CLIENT_VALIDATED", {ClientId(1)}),
                          AuditEntry(StaffId, "VALIDATE_CLIENT", {ClientId(2)}),
                          AuditEntry(ClientId(1), "USER_LOGIN", {}),
                          AuditEntry(ClientId(2), "USER_LOGIN", {})})
  /\ issued = {StaffId, ClientId(1), ClientId(2)}
  /\ nextClient = 2
  /\ logins = 3
  /\ InitTables
  /\ resp = Fail("", 0, NoError)

(***************************************************************************)
(* Every operation in one specification, each with well-formed input: the  *)
(* requests carry the token of a logged-in user, a valid body and the id   *)
(* of a row that may exist.                                                *)
(***************************************************************************)
ValidBearers == [kind : {"access"}, userId : issued, expired : {FALSE}]
ValidRefreshes == [kind : {"refresh"}, userId : issued, expired : {FALSE}]

NextAll ==
  \/ \E e \in {<<"a">>, <<"A">>} : PostRegister(TRUE, e, "secret1")
  \/ \E e \in {<<"a">>, <<"r">>}, p \in {"secret1", "secret2"} : PostLogin(e, p)
  \/ \E t \in ValidRefreshes : PostRefresh(t)
  \/ \E t \in ValidBearers, id \in AllClientIds : PutAuthValidateClient(t, id)
  \/ \E t \in ValidBearers, id \in AllClientIds : PutUsersIdValidate(t, id)
  \/ \E t \in ValidBearers : PutUsersBulkValidate(t, AllClientIds)
  \/ \E t \in ValidBearers, id \in AllClientIds : DeleteUsersId(t, id)
  \/ \E t \in ValidBearers, id \in AllClientIds : PutUsersId(t, id, <<"A">>)
  \/ \E t \in ValidBearers : PostAnimals(t, "Rex")
  \/ \E t \in ValidBearers, id \in AllAnimalIds : PutAnimalsId(t, id, "Max")
  \/ \E t \in ValidBearers, id \in AllAnimalIds : DeleteAnimalsId(t, id)
  \/ \E t \in ValidBearers, id \in AllAnimalIds : CreateAppointment(t, id)
  \/ \E t \in ValidBearers, id \in AllAnimalIds : CreateTreatmentNote(t, id)

(***************************************************************************)
(* The reminders of the clinic: a staff account and a client logged in,    *)
(* the client's animal and its appointment booked.                         *)
(***************************************************************************)
PastDate == DateString("local", 0)
FutureDate == DateString("iso", 3)
Bearer(userId) == [kind |-> "access", userId |-> userId, expired |-> FALSE]
ReminderBearers == {Bearer(StaffId)}

AllReminderIds == {ManualId(1), ReminderId(1)}

AppointmentIdInputs == {"", AppointmentId(1), AppointmentId(2)}
TypeInputs == {"", "BIRTHDAY", "CHECKUP"}

CreateBodies ==
  {[message |-> "call", dueDate |-> PastDate],
   [message |-> "call", dueDate |-> FutureDate, type |-> "CHECKUP"],
   [message |-> "", dueDate |-> PastDate],
   [message |-> "call"]}
    \cup {[message |-> "call", dueDate |-> FutureDate, type |-> t,
           appointmentId |-> AppointmentId(1)] : t \in TypeInputs}
    \cup {[message |-> "call", dueDate |-> GarbageDate,
           appointmentId |-> AppointmentId(1)],
          [message |-> "call", dueDate |-> FutureDate,
           appointmentId |-> AppointmentId(2)]}

UpdateBodies == {[type |-> ""], [type |-> "CHECKUP"], [completed |-> TRUE]}

MinutesInputs == {-1, 0, 2}

NextReminders ==
  \/ \E t \in ReminderBearers : GetReminders(t)
  \/ \E t \in ReminderBearers, b \in CreateBodies : PostReminders(t, b)
  \/ \E t \in ReminderBearers, id \in AllReminderIds, b \in UpdateBodies :
       PutRemindersId(t, id, b)
  \/ \E t \in ReminderBearers, id \in AllReminderIds : PutRemindersIdComplete(t, id)
  \/ \E t \in ReminderBearers, id \in AllReminderIds : DeleteRemindersId(t, id)
  \/ \E t \in ReminderBearers, id \in AllReminderIds, m \in MinutesInputs :
       PutRemindersIdSnooze(t, id, m)
  \/ \E t \in ReminderBearers, p \in AppointmentIdInputs :
       PostRemindersBooking(t, p, {})
  \/ Restart
  \/ Tick

InitClinic(role) ==
  /\ users = [u \in {StaffId, ClientId(1)} |->
                IF u = StaffId THEN StaffUser(role, TRUE)
                ELSE ClientUser(<<"a">>)]
  /\ auditLog = SetToBag({AuditEntry(ClientId(1), "USER_REGISTERED", {}),
                          AuditEntry(StaffId, "USER_LOGIN", {}),
                          AuditEntry(StaffId, "CLIENT_VALIDATED", {ClientId(1)}),
                          AuditEntry(ClientId(1), "USER_LOGIN", {})})
  /\ issued = {StaffId, ClientId(1)}
  /\ nextClient = 1
  /\ logins = 2
  /\ animals = [a \in {AnimalId(1)} |-> [ownerId |-> ClientId(1), name |-> "Rex"]]
  /\ nextAnimal = 1
  /\ appointments = [p \in {AppointmentId(1)} |->
                       [animalId |-> AnimalId(1), clientId |-> ClientId(1),
                        status |-> "SCHEDULED", startTime |-> StartTime]]
  /\ nextAppointment = 1
  /\ treatmentNotes = <<>>
  /\ nextNote = 0
  /\ manualReminders = <<>>
  /\ nextManual = 0
  /\ reminders = <<>>
  /\ nextReminder = 0
  /\ now = 0
  /\ inflight = [s \in Slots |-> Idle]
  /\ resp = Fail("", 0, NoError)

InitReminders == InitClinic(PRACTITIONER)

(***************************************************************************)
(* The listing: reminders are created with every kind of due date string,  *)
(* marked done and listed, and the dashboard splits the listing.           *)
(***************************************************************************)
ListingBodies ==
  {[message |-> "call", dueDate |-> d] : d \in {PastDate, FutureDate, GarbageDate}}
    \cup {[message |-> "call", dueDate |-> FutureDate,
           appointmentId |-> AppointmentId(1)]}

NextListing ==
  \/ \E t \in ReminderBearers, b \in ListingBodies : PostReminders(t, b)
  \/ \E t \in ReminderBearers, id \in AllReminderIds : PutRemindersIdComplete(t, id)
  \/ \E t \in ReminderBearers : GetReminders(t)
  \/ Tick

(***************************************************************************)
(* The role-gated routes, each with every bearer token and one body.       *)
(***************************************************************************)
InitGates == \E role \in StaffRoles : InitClinic(role)

NextGates ==
  \/ \E t \in BearerInputs : GetAuthPendingClients(t)
  \/ \E t \in BearerInputs : PutAuthValidateClient(t, ClientId(1))
  \/ \E t \in BearerInputs : GetUsersClients(t)
  \/ \E t \in BearerInputs : GetUsersId(t, ClientId(1))
  \/ \E t \in BearerInputs : GetUsersSearch(t, <<"a">>)
  \/ \E t \in BearerInputs : PutUsersIdValidate(t, ClientId(1))
  \/ \E t \in BearerInputs : PutUsersBulkValidate(t, {ClientId(1)})
  \/ \E t \in BearerInputs : DeleteUsersId(t, ClientId(1))
  \/ \E t \in BearerInputs : PutUsersId(t, ClientId(1), <<"A">>)
  \/ \E t \in BearerInputs : GetReminders(t)
  \/ \E t \in BearerInputs :
       PostReminders(t, [message |-> "call", dueDate |-> FutureDate])
  \/ \E t \in BearerInputs : PutRemindersId(t, ManualId(1), [type |-> "CHECKUP"])
  \/ \E t \in BearerInputs : PutRemindersIdComplete(t, ManualId(1))
  \/ \E t \in BearerInputs : DeleteRemindersId(t, ManualId(1))
  \/ \E t \in BearerInputs : PutRemindersIdSnooze(t, ManualId(1), 2)
  \/ \E t \in BearerInputs : PostRemindersBooking(t, AppointmentId(1), {})

(***************************************************************************)
(* The appointments of the clinic: animals are registered, booked, and the *)
(* bookings confirmed, refused, cancelled and completed.                   *)
(***************************************************************************)
AllAppointmentIds == {AppointmentId(n) : n \in 1..MaxAppointments}

NextAppointments ==
  \/ \E t \in BearerInputs : PostAnimals(t, "Rex")
  \/ \E t \in BearerInputs, id \in AllAnimalIds : CreateAppointment(t, id)
  \/ \E t \in BearerInputs, id \in AllAppointmentIds : ConfirmAppointment(t, id)
  \/ \E t \in BearerInputs, id \in AllAppointmentIds : RefuseAppointment(t, id)
  \/ \E t \in BearerInputs, id \in AllAppointmentIds : CancelAppointment(t, id)
  \/ \E t \in BearerInputs, id \in AllAppointmentIds : CompleteAppointment(t, id)

Next == NextAuth

Spec == Init /\ [][Next]_vars

SpecAnimals == InitAnimals /\ [][NextAnimals]_vars

SpecAll == Init /\ [][NextAll]_vars

SpecReminders == InitReminders /\ [][NextReminders]_vars

SpecGates == InitGates /\ [][NextGates]_vars

SpecAppointments == InitAnimals /\ [][NextAppointments]_vars

SpecListing == InitReminders /\ [][NextListing]_vars

(***************************************************************************)
(* The booking reminders: the fan-out is requested for the appointment,    *)
(* for an unknown one and without an id, with every set of inserts the     *)
(* database may reject.                                                    *)
(***************************************************************************)
FailedInputs == SUBSET {1, 2, 3}

NextBooking ==
  \/ \E t \in ReminderBearers, p \in AppointmentIdInputs, failed \in FailedInputs :
       PostRemindersBooking(t, p, failed)
  \/ \E t \in ReminderBearers : GetReminders(t)
  \/ Tick

SpecBooking == InitReminders /\ [][NextBooking]_vars

(***************************************************************************)
(* The Map of manual reminders: reminders are created without an           *)
(* appointment, updated with bodies that name any field of the record,     *)
(* marked done, snoozed, deleted and listed.                               *)
(***************************************************************************)
ManualBodies ==
  {[message |-> "call", dueDate |-> d] : d \in {PastDate, FutureDate}}

MapUpdateBodies ==
  {[message |-> "visit"], [priority |-> "high"], [id |-> ReminderId(1)],
   [id |-> ManualId(2)]}

AllManualIds == {ManualId(n) : n \in 1..MaxManual}

NextManualMap ==
  \/ \E t \in ReminderBearers, b \in ManualBodies : PostReminders(t, b)
  \/ \E t \in ReminderBearers, id \in AllManualIds, b \in MapUpdateBodies :
       PutRemindersId(t, id, b)
  \/ \E t \in ReminderBearers, id \in AllManualIds : PutRemindersIdComplete(t, id)
  \/ \E t \in ReminderBearers, id \in AllManualIds : PutRemindersIdSnooze(t, id, 2)
  \/ \E t \in ReminderBearers, id \in AllManualIds : DeleteRemindersId(t, id)
  \/ \E t \in ReminderBearers : GetReminders(t)

SpecManualMap == InitReminders /\ [][NextManualMap]_vars

(***************************************************************************)
(* Two requests on one manual reminder, handled at the same time: the      *)
(* reminder is created, each slot receives an update, a complete or a      *)
(* snooze for it, and the handlers run in either order.                    *)
(***************************************************************************)
RaceUpdateBodies ==
  {[message |-> "visit"], [message |-> "walk"],
   [message |-> "visit", dueDate |-> PastDate], [priority |-> "high"]}

ManualRequests ==
  {Request("PUT /reminders/:id", Bearer(StaffId), ManualId(1), b) : b \in RaceUpdateBodies}
    \cup {Request("PUT /reminders/:id/complete", Bearer(StaffId), ManualId(1), <<>>)}
    \cup {Request("PUT /reminders/:id/snooze", Bearer(StaffId), ManualId(1), m) :
            m \in {0, 2}}

NextManualRace ==
  \/ PostReminders(Bearer(StaffId), [message |-> "call", dueDate |-> PastDate])
  \/ \E s \in Slots, req \in ManualRequests : ReceiveRequest(s, req)
  \/ \E s \in Slots : RunManualHandler(s)

SpecManualRace == InitReminders /\ [][NextManualRace]_vars

(***************************************************************************)
(* Two requests on one client, handled at the same time: a client          *)
(* registers, staff log in, and each slot receives a validation (on either *)
(* endpoint) or the deletion of the client; the statements of the two      *)
(* handlers run in every order, and a write may fail.                      *)
(***************************************************************************)
NextUserRace ==
  \/ PostRegister(TRUE, <<"a">>, "secret1")
  \/ PostLogin(StaffEmail, "secret1")
  \/ \E s \in Slots, t \in ValidBearers, r \in UserRoutes :
       ReceiveRequest(s, Request(r, t, ClientId(1), <<>>))
  \/ \E s \in Slots : FindUser(s)
  \/ \E s \in Slots, ok \in BOOLEAN : FirstWrite(s, ok)
  \/ \E s \in Slots, ok \in BOOLEAN : SecondWrite(s, ok)

SpecUserRace == Init /\ [][NextUserRace]_vars

(***************************************************************************)
(* Properties.                                                             *)
(***************************************************************************)
\* What the properties say of a request, in terms of the tables only.
LoggedInStaff(tok) ==
  /\ tok.kind = "access" /\ ~tok.expired
  /\ tok.userId \in DOMAIN users
  /\ users[tok.userId].role \in StaffRoles

LoggedIn(tok) ==
  tok.kind = "access" /\ ~tok.expired /\ tok.userId \in DOMAIN users

PendingClient(u) == users[u].role = CLIENT /\ ~users[u].validated

ValidatedClient(id) ==
  id \in DOMAIN users /\ users[id].role = CLIENT /\ users[id].validated

OneAuditEntryMore(entry) == auditLog' = auditLog (+) SetToBag({entry})

Refused == resp'.status >= 400 /\ users' = users /\ auditLog' = auditLog

\* C1: a login with a user's e-mail address and password fails with the
\* pending-validation error and issues no token while that user is a CLIENT
\* with validated = false, and succeeds with both tokens for that user
\* otherwise (a validated CLIENT, or an ADMIN or PRACTITIONER whatever the
\* flag).
C1_LoginGatedByValidation ==
  [][\A e \in LoginEmails, p \in LoginPasswords, u \in DOMAIN users :
       (/\ e = users[u].email
        /\ BcryptCompare(p, users[u].password)
        /\ PostLogin(e, p))
       => IF PendingClient(u)
          THEN /\ resp'.status = 401
               /\ resp'.error = ErrPendingValidation
               /\ ~resp'.tokens
               /\ issued' = issued
          ELSE /\ resp'.status = 200
               /\ resp'.tokens
               /\ resp'.userId = u]_vars

\* C2: a successful register adds exactly one user, a CLIENT with
\* validated = false and the address lower-cased, appends exactly one
\* USER_REGISTERED audit entry for it, and returns no token.
C2_RegisterCreatesPendingClient ==
  [][\A n \in BOOLEAN, e \in RegisterEmails, p \in RegisterPasswords :
       (resp'.status = 201 /\ PostRegister(n, e, p))
       => \E id \in DOMAIN users' \ DOMAIN users :
            /\ DOMAIN users' = DOMAIN users \cup {id}
            /\ \A u \in DOMAIN users : users'[u] = users[u]
            /\ users'[id].role = CLIENT
            /\ users'[id].validated = FALSE
            /\ users'[id].email = ToLowerCase(e)
            /\ OneAuditEntryMore(AuditEntry(id, "USER_REGISTERED", {}))
            /\ resp'.userId = id
            /\ ~resp'.tokens
            /\ issued' = issued]_vars

C2_Witness ==
  /\ resp.op = "register" /\ resp.status = 201
  /\ resp.userId \in DOMAIN users
  /\ users[resp.userId].email = <<"a">>
  /\ PendingClient(resp.userId)
  /\ BagIn(AuditEntry(resp.userId, "USER_REGISTERED", {}), auditLog)

\* C3: a well-formed register whose address equals, compared without case,
\* the address of an existing user fails with the duplicate-email error and
\* leaves the users and the audit log unchanged.
C3_DuplicateEmailRejected ==
  [][\A n \in BOOLEAN, e \in RegisterEmails, p \in RegisterPasswords :
       (/\ n /\ Len(p) >= MinPasswordLen /\ EmailRegexTest(e)
        /\ \E u \in DOMAIN users : ToLowerCase(users[u].email) = ToLowerCase(e)
        /\ PostRegister(n, e, p))
       => /\ resp'.status = 400
          /\ resp'.error = ErrDuplicateEmail
          /\ users' = users
          /\ auditLog' = auditLog]_vars

\* C4: refreshToken returns a new token pair exactly when the token verifies
\* (signed as a refresh token, not expired), its user exists and is not a
\* CLIENT with validated = false; otherwise it fails with 'Invalid refresh
\* token' and issues nothing.
C4_RefreshIssuesIffValid ==
  [][\A t \in RefreshInputs :
       (t.kind # "none" /\ PostRefresh(t))
       => IF /\ t.kind = "refresh" /\ ~t.expired
             /\ t.userId \in DOMAIN users
             /\ ~PendingClient(t.userId)
          THEN /\ resp'.status = 200
               /\ resp'.tokens
               /\ resp'.userId = t.userId
          ELSE /\ resp'.status = 401
               /\ resp'.error = ErrInvalidRefresh
               /\ ~resp'.tokens
               /\ issued' = issued]_vars

C4_Witness ==
  /\ resp.op = "refresh" /\ resp.status = 200 /\ resp.tokens
  /\ resp.userId \in DOMAIN users
  /\ users[resp.userId].role = CLIENT

\* C5: by a logged-in staff caller, each single-client validation endpoint
\* fails and writes nothing when the target is missing, is not a CLIENT or
\* is already validated; otherwise it sets validated on that user only and
\* appends one audit entry of the caller.  Both endpoints accept the same
\* targets.
ValidationEffect(tok, id) ==
  IF id \notin DOMAIN users \/ users[id].role # CLIENT \/ users[id].validated
  THEN Refused
  ELSE /\ resp'.status = 200
       /\ users' = [users EXCEPT ![id].validated = TRUE]
       /\ \E action \in {"CLIENT_VALIDATED", "VALIDATE_CLIENT"} :
            OneAuditEntryMore(AuditEntry(tok.userId, action, {id}))

C5_SingleValidation ==
  [][/\ \A id \in UserIdInputs :
          (ValidateClientError(id) = NoError) <=> (UsersValidateError(id) = NoError)
     /\ \A t \in BearerInputs, id \in UserIdInputs :
          LoggedInStaff(t)
          => /\ (resp'.op = "validate-client" /\ PutAuthValidateClient(t, id))
                => ValidationEffect(t, id)
             /\ (resp'.op = "PUT /users/:id/validate" /\ PutUsersIdValidate(t, id))
                => ValidationEffect(t, id)]_vars

C5_Witness ==
  /\ resp.op = "PUT /users/:id/validate" /\ resp.status = 200
  /\ ValidatedClient(resp.userId)
  /\ \E u \in DOMAIN users : u # resp.userId /\ PendingClient(u)

C7_ValidatedNeverReset ==
  [][\A u \in DOMAIN users \cap DOMAIN users' :
       users[u].validated => users'[u].validated]_vars

C7_Witness ==
  /\ resp.op = "PUT /users/:id" /\ resp.status = 200
  /\ ValidatedClient(resp.userId)
  /\ users[resp.userId].email = <<"A">>

\* C8: a login naming no user and a login naming a user with a wrong
\* password get the same response, 401 'Invalid credentials' when a password
\* is given; the pending-validation error is answered only to the right
\* password.
NamesNoUser(e) ==
  \A u \in DOMAIN users :
    users[u].email # e /\ users[u].email # ToLowerCase(Trim(e))

NamesUser(e, u) ==
  users[u].email = e \/ users[u].email = ToLowerCase(Trim(e))

C8_LoginErrorsIndistinguishable ==
  /\ \A e1 \in LoginEmails \ {<<>>}, e2 \in LoginEmails \ {<<>>}, p \in LoginPasswords :
       (/\ NamesNoUser(e1)
        /\ \E u \in DOMAIN users : NamesUser(e2, u)
        /\ \A u \in DOMAIN users :
             NamesUser(e2, u) => ~BcryptCompare(p, users[u].password))
       => /\ LoginResponse(e1, p) = LoginResponse(e2, p)
          /\ p # "" => /\ LoginResponse(e2, p).status = 401
                       /\ LoginResponse(e2, p).error = ErrInvalidCredentials
  /\ \A e \in LoginEmails, p \in LoginPasswords :
       LoginResponse(e, p).error = ErrPendingValidation
       => \E u \in DOMAIN users :
            NamesUser(e, u) /\ BcryptCompare(p, users[u].password)
  /\ resp.error = ErrPendingValidation => resp.op = "login"

C8_Witness ==
  /\ resp.op = "login" /\ resp.status = 401
  /\ resp.error = ErrInvalidCredentials
  /\ \E u \in DOMAIN users : PendingClient(u)

\* C9: DELETE /animals/:id on an animal the caller sees fails and keeps the
\* animal when it has an appointment or a treatment note, and removes it
\* when it has neither.
HasDependents(a) ==
  \/ \E p \in DOMAIN appointments : appointments[p].animalId = a
  \/ \E n \in DOMAIN treatmentNotes : treatmentNotes[n].animalId = a

Visible(tok, a) ==
  /\ LoggedIn(tok)
  /\ a \in DOMAIN animals
  /\ users[tok.userId].role \in StaffRoles \/ animals[a].ownerId = tok.userId

C9_AnimalDeleteGuard ==
  [][\A t \in BearerInputs, a \in AllAnimalIds :
       (Visible(t, a) /\ DeleteAnimalsId(t, a))
       => IF HasDependents(a)
          THEN resp'.status >= 400 /\ animals' = animals
          ELSE resp'.status = 200 /\ a \notin DOMAIN animals']_vars

C9_Witness ==
  /\ resp.op = "DELETE /animals/:id" /\ resp.status = 400
  /\ resp.error = ErrAnimalHasDependents
  /\ \E a \in DOMAIN animals : HasDependents(a)

OthersAnimal(tok, a) ==
  /\ LoggedIn(tok) /\ users[tok.userId].role = CLIENT
  /\ a \in DOMAIN animals /\ animals[a].ownerId # tok.userId

ListsExactly(tok) ==
  /\ resp'.status = 200
  /\ resp'.data = IF users[tok.userId].role = CLIENT
                  THEN {a \in DOMAIN animals : animals[a].ownerId = tok.userId}
                  ELSE DOMAIN animals

StaffSeesAll(tok, a, n) ==
  (LoggedInStaff(tok) /\ a \in DOMAIN animals)
  => /\ (resp'.op = "GET /animals/:id" /\ GetAnimalsId(tok, a))
        => resp'.status = 200 /\ resp'.data = {a}
     /\ (resp'.op = "PUT /animals/:id" /\ PutAnimalsId(tok, a, n))
        => resp'.status # 404
     /\ (resp'.op = "DELETE /animals/:id" /\ DeleteAnimalsId(tok, a))
        => resp'.status # 404

C11_AnimalsOwnershipScoped ==
  [][\A t \in BearerInputs :
       /\ (LoggedIn(t) /\ resp'.op = "GET /animals" /\ GetAnimals(t))
          => ListsExactly(t)
       /\ \A a \in AllAnimalIds, n \in NameInputs \cup {"Max"} :
            /\ OthersAnimal(t, a)
               => /\ (resp'.op = "GET /animals/:id" /\ GetAnimalsId(t, a))
                     => resp'.status = 404 /\ animals' = animals
                  /\ (resp'.op = "PUT /animals/:id" /\ PutAnimalsId(t, a, n))
                     => resp'.status = 404 /\ animals' = animals
                  /\ (resp'.op = "DELETE /animals/:id" /\ DeleteAnimalsId(t, a))
                     => resp'.status = 404 /\ animals' = animals
            /\ StaffSeesAll(t, a, n)]_vars

\* C11 as amended: as above, but PUT /animals/:id checks the body first, so
\* on an animal of another owner it answers 404 when the body passes the
\* schema and 400 when it does not, the animals unchanged either way.
C11_AnimalsOwnershipScopedBodyFirst ==
  [][\A t \in BearerInputs :
       /\ (LoggedIn(t) /\ resp'.op = "GET /animals" /\ GetAnimals(t))
          => ListsExactly(t)
       /\ \A a \in AllAnimalIds, n \in NameInputs \cup {"Max"} :
            /\ OthersAnimal(t, a)
               => /\ (resp'.op = "GET /animals/:id" /\ GetAnimalsId(t, a))
                     => resp'.status = 404 /\ animals' = animals
                  /\ (resp'.op = "PUT /animals/:id" /\ PutAnimalsId(t, a, n))
                     => /\ resp'.status = IF n = "" THEN 400 ELSE 404
                        /\ animals' = animals
                  /\ (resp'.op = "DELETE /animals/:id" /\ DeleteAnimalsId(t, a))
                     => resp'.status = 404 /\ animals' = animals
            /\ StaffSeesAll(t, a, n)]_vars

C11_Witness ==
  /\ resp.op = "PUT /animals/:id" /\ resp.status = 404
  /\ resp.error = ErrAnimalNotFoundUpdate
  /\ \E a \in DOMAIN animals : animals[a].ownerId \in AllClientIds

(***************************************************************************)
(* C12.  On every role-gated route a request without a valid bearer token  *)
(* is answered 401 Unauthorized whatever role it would resolve to, and a   *)
(* request whose resolved role is not in the route's allow-list is         *)
(* answered 403 Forbidden; neither changes any state.  The allow-list is   *)
(* {ADMIN, PRACTITIONER} for the /reminders routes, /auth/pending-clients, *)
(* /auth/validate-client/:clientId, /users/clients, /users/:id,            *)
(* /users/:id/validate and /users/search, and {ADMIN} for                  *)
(* /users/bulk/validate.                                                   *)
(***************************************************************************)
\* The requests of NextGates to the routes the claim gives the allow-list
\* roles, with token t.
GatedRequest(t, roles) ==
  \/ /\ roles = StaffRoles
     /\ \/ GetAuthPendingClients(t)
        \/ PutAuthValidateClient(t, ClientId(1))
        \/ GetUsersClients(t)
        \/ GetUsersId(t, ClientId(1))
        \/ GetUsersSearch(t, <<"a">>)
        \/ PutUsersIdValidate(t, ClientId(1))
        \/ DeleteUsersId(t, ClientId(1))
        \/ PutUsersId(t, ClientId(1), <<"A">>)
        \/ GetReminders(t)
        \/ PostReminders(t, [message |-> "call", dueDate |-> FutureDate])
        \/ PutRemindersId(t, ManualId(1), [type |-> "CHECKUP"])
        \/ PutRemindersIdComplete(t, ManualId(1))
        \/ DeleteRemindersId(t, ManualId(1))
        \/ PutRemindersIdSnooze(t, ManualId(1), 2)
        \/ PostRemindersBooking(t, AppointmentId(1), {})
  \/ /\ roles = {ADMIN}
     /\ PutUsersBulkValidate(t, {ClientId(1)})

Unauthenticated(t) == Authenticate(t) = NoId

NotListed(t, roles) ==
  Authenticate(t) # NoId /\ users[Authenticate(t)].role \notin roles

C12_RoleGate ==
  [][\A t \in BearerInputs, roles \in {StaffRoles, {ADMIN}} :
       (Unauthenticated(t) \/ NotListed(t, roles)) /\ GatedRequest(t, roles)
         => /\ resp'.status = IF Unauthenticated(t) THEN 401 ELSE 403
            /\ resp'.error = IF Unauthenticated(t) THEN ErrUnauthorized
                              ELSE ErrForbidden
            /\ UNCHANGED <<authVars, animalVars, reminderVars>>]_vars



(***************************************************************************)
(* C13.  Confirm and refuse succeed only on a SCHEDULED appointment and    *)
(* only for an ADMIN or PRACTITIONER caller: a successful confirm leaves   *)
(* the appointment CONFIRMED, a successful refuse leaves it CANCELLED, and *)
(* AppointmentsTab shows the two buttons in exactly that case; on a        *)
(* CONFIRMED, CANCELLED or COMPLETED appointment either one fails and the  *)
(* status stays as it was.                                                 *)
(***************************************************************************)
Succeeded == resp'.status = 200

StaffCaller(t) ==
  Authenticate(t) # NoId /\ users[Authenticate(t)].role \in StaffRoles

ConfirmOrRefuse(t, id, to) ==
  \/ to = "CONFIRMED" /\ ConfirmAppointment(t, id)
  \/ to = "CANCELLED" /\ RefuseAppointment(t, id)

C13_ConfirmRefuseOnlyFromScheduled ==
  [][\A t \in BearerInputs, id \in AllAppointmentIds, to \in {"CONFIRMED", "CANCELLED"} :
       resp'.op \in {"confirmAppointment", "refuseAppointment"}
         /\ ConfirmOrRefuse(t, id, to)
         => /\ Succeeded =>
                 /\ StaffCaller(t)
                 /\ id \in DOMAIN appointments
                 /\ appointments[id].status = "SCHEDULED"
                 /\ ShowsConfirmRefuse(users[Authenticate(t)].role,
                                       appointments[id].status)
                 /\ appointments'[id].status = to
            /\ StaffCaller(t) /\ id \in DOMAIN appointments
                 /\ appointments[id].status = "SCHEDULED" => Succeeded
            /\ id \in DOMAIN appointments /\ appointments[id].status # "SCHEDULED"
                 => ~Succeeded /\ UNCHANGED appointments]_vars

\* A refuse was answered an error on a CONFIRMED appointment.
C13_Witness ==
  /\ resp.op = "refuseAppointment" /\ resp.status = 400
  /\ \E p \in DOMAIN appointments : appointments[p].status = "CONFIRMED"

(***************************************************************************)
(* C14.  The status of an appointment only moves along SCHEDULED ->        *)
(* CONFIRMED, SCHEDULED -> CANCELLED, CONFIRMED -> CANCELLED and           *)
(* CONFIRMED -> COMPLETED.  A cancel by staff or by the appointment's      *)
(* client succeeds from SCHEDULED and from CONFIRMED and fails from        *)
(* CANCELLED and from COMPLETED; on a CANCELLED or COMPLETED appointment   *)
(* no confirm, refuse or cancel changes the status.                        *)
(***************************************************************************)
StatusEdges ==
  {<<"SCHEDULED", "CONFIRMED">>, <<"SCHEDULED", "CANCELLED">>,
   <<"CONFIRMED", "CANCELLED">>, <<"CONFIRMED", "COMPLETED">>}

Terminal(status) == status \in {"CANCELLED", "COMPLETED"}

MayCancel(t, id) ==
  /\ Authenticate(t) # NoId
  /\ id \in DOMAIN appointments
  /\ StaffCaller(t) \/ appointments[id].clientId = Authenticate(t)

C14_StatusLifecycle ==
  [][/\ \A p \in DOMAIN appointments \cap DOMAIN appointments' :
          appointments'[p].status # appointments[p].status
            => <<appointments[p].status, appointments'[p].status>> \in StatusEdges
     /\ \A t \in BearerInputs, id \in AllAppointmentIds :
          /\ resp'.op = "cancelAppointment" /\ MayCancel(t, id)
               /\ CancelAppointment(t, id)
               => IF Terminal(appointments[id].status)
                  THEN ~Succeeded /\ UNCHANGED appointments
                  ELSE /\ Succeeded
                       /\ ShowsCancel(appointments[id].status)
                       /\ appointments'[id].status = "CANCELLED"
          /\ id \in DOMAIN appointments /\ Terminal(appointments[id].status)
               /\ (\/ ConfirmAppointment(t, id) \/ RefuseAppointment(t, id)
                   \/ CancelAppointment(t, id))
               => ~Succeeded /\ UNCHANGED appointments]_vars

\* A cancel was answered an error on a COMPLETED appointment.
C14_Witness ==
  /\ resp.op = "cancelAppointment" /\ resp.status = 400
  /\ \E p \in DOMAIN appointments : appointments[p].status = "COMPLETED"


(***************************************************************************)
(* C15.  A reminder created without an appointmentId is stored only in     *)
(* the in-process map: the create writes no row and puts the reminder, not *)
(* completed, in the map, and a listing holds every reminder of the map    *)
(* that is not completed.  A restart empties the map and leaves the rows   *)
(* as they were: a listing of an empty map holds the appointment-linked    *)
(* reminders, all of them and nothing else, and every operation (update,   *)
(* complete, delete, snooze) on the id of a manual reminder that is no     *)
(* longer in the map answers not-found and changes nothing.                *)
(***************************************************************************)
IsManualId(id) == StartsWith(id, "manual-")

\* The ids of the manual reminders created so far that the map no longer
\* holds.
LostManualIds ==
  {ManualId(n) : n \in 1..nextManual} \ DOMAIN manualReminders

ListedIds(list) == {list[i].id : i \in 1..Len(list)}

CreatedManualListed ==
  \A t \in ReminderBearers, b \in CreateBodies :
    resp'.op = "POST /reminders" /\ resp'.status = 201
      /\ ~Has(b, "appointmentId") /\ PostReminders(t, b)
      => /\ UNCHANGED reminders
         /\ DOMAIN manualReminders' = DOMAIN manualReminders \cup {ManualId(nextManual + 1)}
         /\ ~manualReminders'[ManualId(nextManual + 1)].completed

RestartDropsManualOnly ==
  Restart => manualReminders' = <<>> /\ UNCHANGED reminders

\* A listing holds the manual reminders of the map that are not completed
\* (each as the map holds it) and, from the rows, every one.
ListingOfBothStores ==
  \A t \in ReminderBearers :
    resp'.op = "GET /reminders" /\ resp'.status = 200 /\ GetReminders(t)
      => /\ \A m \in DOMAIN manualReminders :
              ~manualReminders[m].completed
                => \E i \in 1..Len(resp'.list) : resp'.list[i] = manualReminders[m]
         /\ {id \in ListedIds(resp'.list) : ~IsManualId(id)} = DOMAIN reminders
         /\ manualReminders = <<>>
              => ListedIds(resp'.list) = DOMAIN reminders

NotFoundUnchanged ==
  resp'.status = 404 /\ UNCHANGED <<authVars, animalVars, reminderVars>>

C15_ManualReminderLostOnRestart ==
  [][/\ CreatedManualListed
     /\ ListingOfBothStores
     /\ RestartDropsManualOnly
     /\ \A t \in ReminderBearers, id \in LostManualIds \cap AllReminderIds :
          \/ \E b \in UpdateBodies : PutRemindersId(t, id, b)
          \/ PutRemindersIdComplete(t, id)
          \/ DeleteRemindersId(t, id)
          \/ \E m \in MinutesInputs : PutRemindersIdSnooze(t, id, m)
          => NotFoundUnchanged]_vars

\* The same, the snooze answering not-found when its minutes are positive
\* and 400 before any lookup when they are missing or not positive.
C15_ManualReminderLostOnRestartValidSnooze ==
  [][/\ CreatedManualListed
     /\ ListingOfBothStores
     /\ RestartDropsManualOnly
     /\ \A t \in ReminderBearers, id \in LostManualIds \cap AllReminderIds :
          /\ \/ \E b \in UpdateBodies : PutRemindersId(t, id, b)
             \/ PutRemindersIdComplete(t, id)
             \/ DeleteRemindersId(t, id)
             \/ \E m \in MinutesInputs : m > 0 /\ PutRemindersIdSnooze(t, id, m)
             => NotFoundUnchanged
          /\ (\E m \in MinutesInputs : m <= 0 /\ PutRemindersIdSnooze(t, id, m))
             => /\ resp'.status = 400 /\ resp'.error = ErrSnoozeDuration
                /\ UNCHANGED <<authVars, animalVars, reminderVars>>]_vars

\* A restart emptied a map that held reminders while rows existed.
C15_Witness ==
  /\ resp.op = "restart"
  /\ nextManual > 0 /\ manualReminders = <<>>
  /\ reminders # <<>>


(***************************************************************************)
(* C16.  A snooze of an existing reminder by m > 0 minutes sets its due    *)
(* date to the current time plus m minutes, whatever the due date was, in  *)
(* the map and in the table alike, and leaves the reminder's message,      *)
(* type, priority and completed (sent) flag as they were; a snooze whose   *)
(* minutes are missing or not positive is rejected and changes nothing.    *)
(***************************************************************************)
\* The map but for the due date of id, which is the ISO string of instant.
ManualWithDueDate(id, instant) ==
  [m \in DOMAIN manualReminders |->
     IF m = id
     THEN [f \in DOMAIN manualReminders[id] |->
             IF f = "dueDate" THEN ToISOString(instant) ELSE manualReminders[id][f]]
     ELSE manualReminders[m]]

\* The table but for the remindAt of id.
RowsWithRemindAt(id, instant) ==
  [r \in DOMAIN reminders |->
     IF r = id
     THEN [message |-> reminders[id].message, type |-> reminders[id].type,
           remindAt |-> instant, sent |-> reminders[id].sent,
           appointmentId |-> reminders[id].appointmentId]
     ELSE reminders[r]]

C16_SnoozeSetsDueDate ==
  [][\A t \in ReminderBearers, id \in AllReminderIds, m \in MinutesInputs :
       resp'.op = "PUT /reminders/:id/snooze" /\ PutRemindersIdSnooze(t, id, m)
         => IF m <= 0
            THEN /\ resp'.status = 400 /\ resp'.error = ErrSnoozeDuration
                 /\ UNCHANGED <<authVars, animalVars, reminderVars>>
            ELSE /\ id \in DOMAIN manualReminders
                      => /\ resp'.status = 200
                         /\ manualReminders' = ManualWithDueDate(id, now + m)
                         /\ NewDate(manualReminders'[id].dueDate) = now + m
                         /\ UNCHANGED reminders
                 /\ id \in DOMAIN reminders
                      => /\ resp'.status = 200
                         /\ reminders' = RowsWithRemindAt(id, now + m)
                         /\ UNCHANGED manualReminders]_vars

\* A snooze moved a reminder whose due date was another one, after the
\* clock had advanced.
C16_Witness ==
  /\ resp.op = "PUT /reminders/:id/snooze" /\ resp.status = 200
  /\ now > 0
  /\ \E id \in DOMAIN manualReminders :
       /\ manualReminders[id].dueDate = ToISOString(now + 2)
       /\ manualReminders[id].type = "MANUAL"


(***************************************************************************)
(* C17.  GET /reminders answers the merge of the two stores sorted by      *)
(* ascending due date: the list holds every appointment-linked reminder,   *)
(* sent or not, and exactly the manual reminders that are not completed,   *)
(* each once, and no entry comes before an entry whose due date is         *)
(* earlier.                                                                *)
(***************************************************************************)
Listed == resp.op = "GET /reminders" /\ resp.status = 200

HasDueDate(r) == DueTime(r) # NaN

Ascending(list) ==
  \A i \in 1..Len(list), j \in 1..Len(list) :
    i < j /\ HasDueDate(list[i]) /\ HasDueDate(list[j])
      => DueTime(list[i]) <= DueTime(list[j])

MergedIds ==
  DOMAIN reminders
    \cup {m \in DOMAIN manualReminders : ~manualReminders[m].completed}

C17_ListingMergedAndSorted ==
  Listed
    => /\ ListedIds(resp.list) = MergedIds
       /\ Len(resp.list) = Cardinality(MergedIds)
       /\ \A i \in 1..Len(resp.list) :
            IF IsManualId(resp.list[i].id)
            THEN resp.list[i] = manualReminders[resp.list[i].id]
            ELSE resp.list[i] = DbResponse(resp.list[i].id)
       /\ Ascending(resp.list)


(***************************************************************************)
(* C18.  In the active list of the dashboard a standalone reminder whose   *)
(* due date is in the past comes before every reminder due in the future;  *)
(* a reminder marked done is not in the active list, and a persisted one   *)
(* marked done is among the completed reminders of the listing.            *)
(***************************************************************************)
PastDue(r) == HasDueDate(r) /\ DueTime(r) < now
DueLater(r) == HasDueDate(r) /\ DueTime(r) > now

C18_ActiveListOrderAndDone ==
  Listed
    => /\ \A active \in sortedActiveReminders(resp.list) :
            \A i \in 1..Len(active), j \in 1..Len(active) :
              IsManualId(active[i].id) /\ PastDue(active[i]) /\ DueLater(active[j])
                => i < j
       /\ \A m \in DOMAIN manualReminders :
            manualReminders[m].completed
              => m \notin ListedIds(activeReminders(resp.list))
       /\ \A r \in DOMAIN reminders :
            reminders[r].sent
              => /\ r \notin ListedIds(activeReminders(resp.list))
                 /\ r \in ListedIds(completedReminders(resp.list))


(***************************************************************************)
(* C19.  An update, a complete, a delete and a snooze on an id that names  *)
(* no reminder answer not-found and change no reminder: an id with the     *)
(* prefix manual- is looked up in the map, every other id in the table.    *)
(***************************************************************************)
NamesNoReminder(id) ==
  IF IsManualId(id) THEN id \notin DOMAIN manualReminders
  ELSE id \notin DOMAIN reminders

RequestOnReminder(t, id) ==
  \/ \E b \in UpdateBodies : PutRemindersId(t, id, b)
  \/ PutRemindersIdComplete(t, id)
  \/ DeleteRemindersId(t, id)
  \/ \E m \in MinutesInputs : m > 0 /\ PutRemindersIdSnooze(t, id, m)

C19_UnknownIdNotFound ==
  [][\A t \in ReminderBearers, id \in AllReminderIds :
       NamesNoReminder(id) /\ RequestOnReminder(t, id) => NotFoundUnchanged]_vars


(***************************************************************************)
(* C20.  An appointment-linked reminder created or updated with the type   *)
(* string t is persisted with type t when t is APPOINTMENT_REMINDER,       *)
(* FOLLOW_UP, APPOINTMENT_CONFIRMATION or BIRTHDAY and with FOLLOW_UP for  *)
(* every other string; a manual reminder is stored with exactly t.  A      *)
(* listing gives every reminder the type its store holds: the coerced one  *)
(* for a row, the original one for a manual reminder.                      *)
(***************************************************************************)
Coerced(t) ==
  IF t \in {"APPOINTMENT_REMINDER", "FOLLOW_UP", "APPOINTMENT_CONFIRMATION", "BIRTHDAY"}
  THEN t ELSE "FOLLOW_UP"

\* The type string of a create body: the schema's default when absent.
TypeOf(b) == IF Has(b, "type") THEN b.type ELSE "MANUAL"

CreatedWithType ==
  \A t \in ReminderBearers, b \in CreateBodies :
    resp'.op = "POST /reminders" /\ resp'.status = 201 /\ PostReminders(t, b)
      => IF Has(b, "appointmentId")
         THEN reminders'[ReminderId(nextReminder + 1)].type = Coerced(TypeOf(b))
         ELSE manualReminders'[ManualId(nextManual + 1)].type = TypeOf(b)

ListedWithStoredType ==
  resp'.op = "GET /reminders" /\ resp'.status = 200
    => \A i \in 1..Len(resp'.list) :
         resp'.list[i].type =
           IF IsManualId(resp'.list[i].id)
           THEN manualReminders[resp'.list[i].id].type
           ELSE reminders[resp'.list[i].id].type

C20_TypeCoercion ==
  [][/\ CreatedWithType
     /\ ListedWithStoredType
     /\ \A t \in ReminderBearers, id \in AllReminderIds, b \in UpdateBodies :
          resp'.op = "PUT /reminders/:id" /\ resp'.status = 200
            /\ Has(b, "type") /\ PutRemindersId(t, id, b)
            => IF IsManualId(id)
               THEN manualReminders'[id].type = b.type
               ELSE reminders'[id].type = Coerced(b.type)]_vars

\* The same, an update of a row with the empty type string leaving the
\* type of the row as it was.
C20_TypeCoercionNonEmptyUpdate ==
  [][/\ CreatedWithType
     /\ ListedWithStoredType
     /\ \A t \in ReminderBearers, id \in AllReminderIds, b \in UpdateBodies :
          resp'.op = "PUT /reminders/:id" /\ resp'.status = 200
            /\ Has(b, "type") /\ PutRemindersId(t, id, b)
            => IF IsManualId(id)
               THEN manualReminders'[id].type = b.type
               ELSE reminders'[id].type =
                      IF b.type = "" THEN reminders[id].type ELSE Coerced(b.type)]_vars

\* An update with CHECKUP left a row with FOLLOW_UP and answered CHECKUP.
C20_Witness ==
  /\ resp.op = "PUT /reminders/:id" /\ resp.status = 200
  /\ Len(resp.list) = 1
  /\ resp.list[1].type = "CHECKUP"
  /\ resp.list[1].id \in DOMAIN reminders
  /\ reminders[resp.list[1].id].type = "FOLLOW_UP"

(***************************************************************************)
(* C21.  POST /reminders/booking for an existing appointment creates, on   *)
(* success, exactly three reminders linked to that appointment, all with   *)
(* sent = false: an APPOINTMENT_CONFIRMATION due 24 hours before the       *)
(* appointment's start, an APPOINTMENT_REMINDER due 2 hours before it and  *)
(* a FOLLOW_UP due 7 days after it; for a missing appointmentId or an      *)
(* appointment that does not exist it creates none.                        *)
(***************************************************************************)
BookingRequest == resp'.op = "POST /reminders/booking"

NewRows == DOMAIN reminders' \ DOMAIN reminders

OldRowsKept ==
  /\ DOMAIN reminders \subseteq DOMAIN reminders'
  /\ \A r \in DOMAIN reminders : reminders'[r] = reminders[r]

\* The type and the due instant of the three reminders of an appointment
\* that starts at the given minute.
ExpectedBookingReminders(start) ==
  {<<"APPOINTMENT_CONFIRMATION", start - 24 * 60>>,
   <<"APPOINTMENT_REMINDER", start - 2 * 60>>,
   <<"FOLLOW_UP", start + 7 * 24 * 60>>}

C21_BookingCreatesThree ==
  [][\A t \in ReminderBearers, p \in AppointmentIdInputs, failed \in FailedInputs :
       BookingRequest /\ PostRemindersBooking(t, p, failed)
         => /\ OldRowsKept
            /\ resp'.status = 201
                 => /\ p \in DOMAIN appointments
                    /\ Cardinality(NewRows) = 3
                    /\ resp'.data = NewRows
                    /\ \A r \in NewRows :
                         /\ reminders'[r].appointmentId = p
                         /\ reminders'[r].sent = FALSE
                    /\ {<<reminders'[r].type, reminders'[r].remindAt>> : r \in NewRows}
                         = ExpectedBookingReminders(appointments[p].startTime)
            /\ (p = "" \/ p \notin DOMAIN appointments)
                 => /\ resp'.status = IF p = "" THEN 400 ELSE 404
                    /\ UNCHANGED <<authVars, animalVars, reminderVars>>]_vars

\* A booking fan-out succeeded and its three rows are in the table.
C21_Witness ==
  /\ resp.op = "POST /reminders/booking" /\ resp.status = 201
  /\ Cardinality(resp.data) = 3
  /\ resp.data \subseteq DOMAIN reminders
  /\ \A r \in resp.data : reminders[r].appointmentId = AppointmentId(1)

(***************************************************************************)
(* C24.  The booking-reminder fan-out is not atomic: its three inserts are *)
(* independent writes, so when one insert fails the request reports        *)
(* failure while the reminders of the other inserts remain persisted for   *)
(* the appointment; and there is no idempotency key: repeating a           *)
(* successful POST /reminders/booking for the same appointment adds three  *)
(* more reminders each time.                                               *)
(***************************************************************************)
RemindersOf(rows, p) == {r \in DOMAIN rows : rows[r].appointmentId = p}

C24_BookingFanOutNotAtomic ==
  [][\A t \in ReminderBearers, p \in DOMAIN appointments, failed \in FailedInputs :
       BookingRequest /\ PostRemindersBooking(t, p, failed)
         => /\ OldRowsKept
            /\ Cardinality(RemindersOf(reminders', p))
                 = Cardinality(RemindersOf(reminders, p)) + 3 - Cardinality(failed)
            /\ failed # {} => resp'.status = 400 /\ resp'.error = ErrBookingReminders
            /\ failed = {} => resp'.status = 201]_vars

\* A fan-out was answered as failed, and one or two of its reminders are
\* the only reminders of the appointment.
C24_Witness ==
  /\ resp.op = "POST /reminders/booking" /\ resp.status = 400
  /\ resp.error = ErrBookingReminders
  /\ Cardinality(RemindersOf(reminders, AppointmentId(1))) \in {1, 2}

AdminCaller(t) ==
  Authenticate(t) # NoId /\ users[Authenticate(t)].role = ADMIN

SearchResult(q) ==
  {u \in DOMAIN users :
     users[u].role = CLIENT /\ Contains(ToLowerCase(users[u].email), ToLowerCase(q))}

C25_UsersRoutesServedByOwnHandler ==
  [][\A t \in BearerInputs :
       /\ (resp'.op = "GET /users/search" /\ StaffCaller(t)
             /\ GetUsersSearch(t, <<"a">>))
            => /\ resp'.handler = "GET /search"
               /\ resp'.status = 200
               /\ resp'.data = SearchResult(<<"a">>)
       /\ (resp'.op = "PUT /users/bulk/validate" /\ AdminCaller(t)
             /\ PutUsersBulkValidate(t, {ClientId(1)}))
            => /\ resp'.handler = "PUT /bulk/validate"
               /\ resp'.status = 200
               /\ \A u \in {ClientId(1)} \cap DOMAIN users :
                    users[u].role = CLIENT => users'[u].validated]_vars

(***************************************************************************)
(* C27.  After any sequence of register and client-profile update          *)
(* operations, no two users have e-mails that are equal when compared      *)
(* without case, and every stored e-mail is in lower case, so that login   *)
(* (which lower-cases the supplied e-mail before the lookup) finds every   *)
(* existing user by their e-mail.                                          *)
(***************************************************************************)
C27_EmailsUniqueWithoutCase ==
  \A u \in DOMAIN users :
    /\ users[u].email = ToLowerCase(users[u].email)
    /\ FindByEmail(ToLowerCase(users[u].email)) = {u}
    /\ \A v \in DOMAIN users \ {u} :
         ToLowerCase(users[v].email) # ToLowerCase(users[u].email)

(***************************************************************************)
(* C28.  In every reachable state of the in-memory reminder map, each key  *)
(* starts with the prefix manual- and the record stored under a key has    *)
(* that key as its id field, after any sequence of create, update (with    *)
(* an arbitrary request body), complete, snooze and delete operations.     *)
(***************************************************************************)
C28_ManualMapKeysAndIds ==
  \A k \in DOMAIN manualReminders :
    /\ StartsWith(k, "manual-")
    /\ manualReminders[k].id = k

(***************************************************************************)
(* C29.  No user-management operation removes or modifies a user whose     *)
(* role is ADMIN or PRACTITIONER, and no operation changes any user's      *)
(* role: DELETE /users/:id, PUT /users/:id and every validation endpoint   *)
(* reject or skip a non-CLIENT target and leave it unchanged.              *)
(***************************************************************************)
StaffTarget(id) == id \in DOMAIN users /\ users[id].role \in StaffRoles

OnStaffTarget(t, id) ==
  \/ PutAuthValidateClient(t, id)
  \/ PutUsersIdValidate(t, id)
  \/ DeleteUsersId(t, id)
  \/ \E e \in UpdateEmails : PutUsersId(t, id, e)

C29_StaffUsersAndRolesUnchanged ==
  [][/\ \A u \in DOMAIN users :
          /\ StaffTarget(u) => u \in DOMAIN users' /\ users'[u] = users[u]
          /\ u \in DOMAIN users' => users'[u].role = users[u].role
     /\ \A t \in BearerInputs, id \in UserIdInputs :
          StaffTarget(id) /\ StaffCaller(t) /\ OnStaffTarget(t, id)
            => resp'.status = 400 /\ UNCHANGED <<authVars, animalVars, reminderVars>>]_vars

\* A staff caller asked for the deletion of a staff account and was
\* refused; the account is there.
C29_Witness ==
  /\ resp.op = "DELETE /users/:id" /\ resp.status = 400
  /\ resp.error = ErrOnlyClientsDeleted
  /\ StaffTarget(StaffId)

(***************************************************************************)
(* C23.  The in-memory reminder map is subject to lost updates under       *)
(* concurrent requests on the same process: two concurrent update,         *)
(* complete or snooze requests on the same manual reminder can both report *)
(* success while the stored record reflects the change of only one of      *)
(* them.  The handlers run one after the other, each on the record the     *)
(* other left: the request handled last is reflected whole, and the change *)
(* of the other is lost exactly where the two write the same field with    *)
(* different values.                                                       *)
(***************************************************************************)
FieldsWritten(req) ==
  CASE req.route = "PUT /reminders/:id" -> DOMAIN req.arg
    [] req.route = "PUT /reminders/:id/complete" -> {"completed"}
    [] req.route = "PUT /reminders/:id/snooze" -> {"dueDate"}

ValueWritten(req, f) ==
  CASE req.route = "PUT /reminders/:id" ->
         IF f = "priority" THEN ToUpperCase(req.arg[f]) ELSE req.arg[f]
    [] req.route = "PUT /reminders/:id/complete" -> TRUE
    [] req.route = "PUT /reminders/:id/snooze" -> ToISOString(now + req.arg)

Reflected(req) ==
  \A f \in FieldsWritten(req) : manualReminders[req.id][f] = ValueWritten(req, f)

Conflicting(a, b) ==
  \E f \in FieldsWritten(a) \cap FieldsWritten(b) :
    ValueWritten(a, f) # ValueWritten(b, f)

BothSucceeded ==
  /\ \A s \in Slots : inflight[s].pc = "answered" /\ inflight[s].status = 200
  /\ inflight[1].req.id = inflight[2].req.id
  /\ inflight[1].req.id \in DOMAIN manualReminders

\* The reminder as POST /reminders stored it.
AsCreated ==
  [id |-> ManualId(1), message |-> "call", type |-> "MANUAL", dueDate |-> PastDate,
   completed |-> FALSE, priority |-> "MEDIUM"]

C23_ConcurrentManualUpdates ==
  BothSucceeded =>
    LET a == inflight[1].req
        b == inflight[2].req
        stored == manualReminders[a.id]
    IN /\ Reflected(a) \/ Reflected(b)
       /\ Conflicting(a, b) <=> ~(Reflected(a) /\ Reflected(b))
       /\ DOMAIN stored = DOMAIN AsCreated
       /\ \A f \in DOMAIN stored :
            \/ f \in FieldsWritten(a) /\ stored[f] = ValueWritten(a, f)
            \/ f \in FieldsWritten(b) /\ stored[f] = ValueWritten(b, f)
            \/ f \notin FieldsWritten(a) \cup FieldsWritten(b) /\ stored[f] = AsCreated[f]

\* Two requests on the same reminder were being handled at the same time,
\* both were answered 200, and the stored record shows the change of one
\* of them only.
C23_Witness ==
  /\ BothSucceeded
  /\ \E s \in Slots, o \in Slots :
       /\ o \in inflight[s].during
       /\ ~Reflected(inflight[s].req)
       /\ Reflected(inflight[o].req)


\* The validations of client c that were answered 200, and the number of
\* validation entries of c in the audit log.
SucceededValidations(c) ==
  {s \in Slots : /\ inflight[s].pc = "answered"
                 /\ inflight[s].req.route \in ValidationRoutes
                 /\ inflight[s].req.id = c
                 /\ inflight[s].status = 200}

ValidationEntries(c) ==
  {e \in BagToSet(auditLog) :
     e.action \in {"CLIENT_VALIDATED", "VALIDATE_CLIENT"} /\ e.target = {c}}

ValidationAudits(c) == BagCardinality([e \in ValidationEntries(c) |-> auditLog[e]])

(***************************************************************************)
(* C26: of two validation requests for the same unvalidated client that    *)
(* run at the same time, on the same or on different single-client         *)
(* validation endpoints, at most one is answered 200 and at most one       *)
(* validation entry is added to the audit log for that client.  The code   *)
(* reads validated, awaits, and writes: both requests can read             *)
(* validated = false before either writes, and then both are answered 200  *)
(* and both add an entry.                                                  *)
(***************************************************************************)
C26_AtMostOneValidationSucceeds ==
  \A c \in AllClientIds :
    /\ Cardinality(SucceededValidations(c)) <= 1
    /\ ValidationAudits(c) <= 1

\* A quiescent state: no request is between its first statement and its
\* answer.
Quiescent == \A s \in Slots : inflight[s].pc \in {"idle", "answered"}

(***************************************************************************)
(* C30: for the validation and the deletion of a client the change and its *)
(* audit entry happen together: once the requests are answered, also when  *)
(* the second of the two writes failed, no DELETE_CLIENT entry names a     *)
(* client that still exists and every validated client has a               *)
(* CLIENT_VALIDATED or VALIDATE_CLIENT entry.  The two writes are separate *)
(* statements outside any transaction: when the second throws, the first   *)
(* stays.                                                                  *)
(***************************************************************************)
C30_ChangeAndAuditTogether ==
  Quiescent =>
    \A c \in DOMAIN users :
      /\ ~\E e \in BagToSet(auditLog) : e.action = "DELETE_CLIENT" /\ e.target = {c}
      /\ (users[c].role = CLIENT /\ users[c].validated) => ValidationEntries(c) # {}
=============================================================================
